---- MODULE Spec2Model ----
(***************************************************************************)
(* A model of the resilience core of resilient-analytics-api.              *)
(*                                                                         *)
(* CircuitBreaker (src/src/services/circuit_breaker.py) is one shared      *)
(* object used by several asyncio tasks.  asyncio is cooperative: a task   *)
(* runs without interruption until it suspends, and call() and reset() can *)
(* suspend only where they await the protected operation and where they    *)
(* wait for a contended asyncio.Lock.  Each action below is one such       *)
(* uninterrupted run of a task.                                            *)
(*                                                                         *)
(* RateLimiter (src/src/services/rate_limiter.py) keeps one counter per    *)
(* client key in Redis.  A RateLimiter call suspends at each Redis round   *)
(* trip; each action is one round trip together with the code that runs on *)
(* its reply.  The breaker and the limiter share no state, so each has its *)
(* own specifications, which leave the other's variables unchanged.        *)
(*                                                                         *)
(* CacheService (src/src/services/cache_service.py) stores JSON text in    *)
(* Redis under a TTL.  Values are Python values, named by their literals;  *)
(* json.dumps and json.loads are modelled on those values, so that what is *)
(* read back is what the two conversions make of what was stored.          *)
(***************************************************************************)
EXTENDS Integers, Sequences, FiniteSets

\* ------------------------------------------------------------------ bounds

\* Number of concurrent callers sharing the breaker.
NumTasks == 2
\* Largest failure_threshold a breaker is constructed with.
MaxThreshold == 2
\* Largest reset_timeout (in clock units) a breaker is constructed with.
MaxResetTimeout == 2
\* The clock advances at most this many units after construction.
MaxTicks == 3
\* No new call is issued once success_count has reached this value.
MaxSuccessCount == 2
\* Largest threshold a RateLimiter is constructed with.
MaxRate == 2
\* Largest window_seconds a RateLimiter is constructed with.
MaxWindow == 2
\* No allow_request() is issued for a key whose counter has reached this value.
MaxCount == 3
\* The Redis clock stops at this value.
MaxRedisTime == 2
\* Largest TTL a CacheService is constructed with or set() is called with.
MaxTTL == 2
\* Constructor arguments and settings range over -MaxArg..MaxArg.
MaxArg == 1
\* Connections redis.from_url() creates in one process.
MaxConnections == 2

Tasks == 1..NumTasks

\* The clock value at construction: later than any timeout, as time.time() is.
StartTime == MaxResetTimeout + 1

\* ------------------------------------------------------------------- state

VARIABLES
    state,              \* CircuitBreaker._state
    failure_count,      \* CircuitBreaker._failure_count
    success_count,      \* CircuitBreaker._success_count
    last_failure_time,  \* CircuitBreaker._last_failure_time
    last_state_change,  \* CircuitBreaker._last_state_change
    failure_threshold,  \* CircuitBreaker._failure_threshold
    reset_timeout,      \* CircuitBreaker._reset_timeout
    locked,             \* CircuitBreaker._lock: whether the lock is held
    waiters,            \* CircuitBreaker._lock: the tasks waiting for it, FIFO
    now,                \* the value time.time() returns
    pc,                 \* where each task is inside call() or reset()
    outcome             \* how the call() that ended last ended

VARIABLES
    threshold,          \* RateLimiter.threshold
    window_seconds,     \* RateLimiter.window_seconds
    counter,            \* Redis: each key's integer value, 0 when the key is absent
    expires,            \* Redis: the time each key expires at, NoExpiry without a TTL
    redis_time,         \* Redis: the server's clock, in seconds
    rl_pc,              \* where each task is inside allow_request()
    rl_key,             \* allow_request()'s client_key, per task inside it
    reply,              \* the reply to the Redis command issued last
    rl_last,            \* the RateLimiter call that returned last: what it returned
    window_start,       \* history: when each key's counter was created, NoWindow when absent
    obtained,           \* history: the counts INCR produced for each key's counter
    denied              \* history: whether a request for the key was ever denied

breaker_vars == <<state, failure_count, success_count, last_failure_time,
                  last_state_change, failure_threshold, reset_timeout, locked,
                  waiters, now, pc, outcome>>

rl_vars == <<threshold, window_seconds, counter, expires, redis_time, rl_pc,
             rl_key, reply, rl_last, window_start, obtained, denied>>

VARIABLES
    default_ttl_seconds,    \* CacheService.default_ttl_seconds
    entry,                  \* Redis: the text stored under each cache key, Nil when absent
    entry_ttl,              \* Redis: the seconds each cache key has left to live
    cache_call,             \* each task's get_or_set() or clear_pattern() in progress
    cache_last,             \* the CacheService call that returned last
    put                     \* history: the value last given to set() for each key, and
                            \* the seconds left of the TTL it was given

cache_vars == <<default_ttl_seconds, entry, entry_ttl, cache_call, cache_last, put>>

VARIABLES
    instance,               \* RedisClient._instance: the number of the connection it holds
    connections,            \* history: how many connections redis.from_url() created
    services,               \* routes.rate_limiter, cache_service and circuit_breaker: the
                            \* number of the construction they come from
    constructed,            \* history: how often get_services() constructed the three
    boot_pc,                \* where each task is in initialize() or get_services()
    boot_got,               \* what the task's last initialize() or get_services() returned
    built,                  \* how the last constructor or Settings.validate() call ended
    closed                  \* history: a close() has closed a client

boot_vars == <<instance, connections, services, constructed, boot_pc, boot_got, built,
               closed>>

VARIABLES
    summary_pc,             \* where each task is in get_metrics_summary()
    summary_key,            \* the cache_key of the task's request
    summary_last            \* how the last get_metrics_summary() request ended

summary_vars == <<summary_pc, summary_key, summary_last>>

VARIABLES
    reported                \* what the last get_state() or get_status() returned

status_vars == <<reported>>

vars == <<breaker_vars, rl_vars, cache_vars, boot_vars, summary_vars, status_vars>>

\* What the actions of one component leave unchanged.
beside_breaker == <<rl_vars, cache_vars, boot_vars, summary_vars, status_vars>>
beside_limiter == <<breaker_vars, cache_vars, boot_vars, summary_vars, status_vars>>
beside_cache == <<breaker_vars, rl_vars, boot_vars, summary_vars, status_vars>>
beside_boot == <<breaker_vars, rl_vars, cache_vars, summary_vars, status_vars>>
beside_services == <<rl_vars, cache_vars, summary_vars, status_vars>>
beside_summary == <<rl_vars, status_vars>>
beside_status == <<rl_vars, cache_vars, boot_vars, summary_vars>>

\* The client keys requests are made for.
Keys == {"client_1", "client_2"}

config == <<failure_threshold, reset_timeout>>

\* CircuitState
CLOSED == "CLOSED"
OPEN == "OPEN"
HALF_OPEN == "HALF_OPEN"
CircuitState == {CLOSED, OPEN, HALF_OPEN}

\* What a call() gives its caller: the operation's result, the operation's
\* own exception, or CircuitBreakerOpenError.
Result == "result"
OperationError == "OperationError"
CircuitBreakerOpenError == "CircuitBreakerOpenError"

\* How a call() ended: the path it left by ("rejected": the raise at line 100,
\* "probe": the HALF_OPEN path, "closed": the CLOSED path) and what it gave.
Ended(path, given) == [exit |-> path, gave |-> given]
NotEnded == Ended("none", "none")

\* The mutable fields of the breaker as one value, so that the methods that
\* change several fields in sequence compose as functions.
Breaker ==
    [state |-> state,
     failure_count |-> failure_count,
     success_count |-> success_count,
     last_failure_time |-> last_failure_time,
     last_state_change |-> last_state_change]

SetBreaker(b) ==
    /\ state' = b.state
    /\ failure_count' = b.failure_count
    /\ success_count' = b.success_count
    /\ last_failure_time' = b.last_failure_time
    /\ last_state_change' = b.last_state_change

\* get_status()
GetStatus(b) ==
    [state |-> b.state,
     failure_count |-> b.failure_count,
     success_count |-> b.success_count,
     last_failure_time |-> b.last_failure_time]

Status == GetStatus(Breaker)

\* -------------------------------------------------- the breaker's methods

\* _transition_to_closed() that forgets to clear failure_count
TransitionToClosed_KeepsFailures(b, t) ==
    IF b.state # CLOSED
    THEN [b EXCEPT !.state = CLOSED,
                   !.success_count = 0,
                   !.last_state_change = t]
    ELSE b

\* _transition_to_closed() at time t
TransitionToClosed(b, t) ==
    IF b.state # CLOSED
    THEN [b EXCEPT !.state = CLOSED,
                   !.failure_count = 0,
                   !.success_count = 0,
                   !.last_state_change = t]
    ELSE b

\* _transition_to_open() at time t
TransitionToOpen(b, t) ==
    IF b.state # OPEN
    THEN [b EXCEPT !.state = OPEN,
                   !.last_failure_time = t,
                   !.last_state_change = t]
    ELSE b

\* _transition_to_half_open() at time t
TransitionToHalfOpen(b, t) ==
    IF b.state = OPEN
    THEN [b EXCEPT !.state = HALF_OPEN, !.last_state_change = t]
    ELSE b

\* _check_state_transition() that ignores the elapsed time
CheckStateTransition_NoTimeout(b, t) ==
    IF b.state = OPEN
    THEN TransitionToHalfOpen(b, t)
    ELSE b

\* _check_state_transition() that compares with > instead of >=
CheckStateTransition_Strict(b, t) ==
    IF b.state = OPEN /\ t - b.last_failure_time > reset_timeout
    THEN TransitionToHalfOpen(b, t)
    ELSE b

\* _check_state_transition() at time t
CheckStateTransition(b, t) ==
    IF b.state = OPEN /\ t - b.last_failure_time >= reset_timeout
    THEN TransitionToHalfOpen(b, t)
    ELSE b

\* _record_success() that never resets failure_count
RecordSuccess_NoReset(b) ==
    [b EXCEPT !.success_count = @ + 1]

\* _record_success() that resets failure_count in every state
RecordSuccess_AlwaysResets(b) ==
    [b EXCEPT !.success_count = @ + 1, !.failure_count = 0]

\* _record_success()
RecordSuccess(b) ==
    [b EXCEPT !.success_count = @ + 1,
              !.failure_count = IF b.state = CLOSED THEN 0 ELSE @]

\* _record_failure() at time t
RecordFailure(b, t) ==
    [b EXCEPT !.failure_count = @ + 1, !.last_failure_time = t]

\* The CLOSED path's failure handling with > instead of >= against the threshold
CountFailure_StrictThreshold(b, t) ==
    LET b1 == RecordFailure(b, t)
    IN  IF b1.failure_count > failure_threshold
        THEN TransitionToOpen(b1, t)
        ELSE b1

\* The CLOSED path's failure handling without the threshold check
CountFailure_NeverOpens(b, t) == RecordFailure(b, t)

\* The body of call()'s `async with self._lock` on the CLOSED path, at time t.
CountFailure(b, t) ==
    LET b1 == RecordFailure(b, t)
    IN  IF b1.failure_count >= failure_threshold
        THEN TransitionToOpen(b1, t)
        ELSE b1

\* The success branch of the HALF_OPEN path with its two calls swapped
ProbeSucceeded_ClearThenCount(b, t) == RecordSuccess(TransitionToClosed(b, t))

\* The success branch of the HALF_OPEN path, at time t.
ProbeSucceeded(b, t) == TransitionToClosed(RecordSuccess(b), t)

\* The except branch of the HALF_OPEN path, at time t.
ProbeFailed(b, t) == TransitionToOpen([b EXCEPT !.last_failure_time = t], t)

\* reset() that relies on the transition alone to clear the counts
ResetBody_OnlyTransition(b, t) == TransitionToClosed(b, t)

\* The body of reset()'s `async with self._lock`, at time t.
ResetBody(b, t) ==
    TransitionToClosed([b EXCEPT !.failure_count = 0, !.success_count = 0], t)

\* ----------------------------------------------------------------- the lock

\* asyncio.Lock.acquire() returns without suspending exactly when the lock is
\* not held and nobody is waiting for it.
LockFree == ~locked /\ waiters = <<>>

\* A waiting task resumes when it is first in line and the lock was released.
Woken(t) == ~locked /\ waiters # <<>> /\ Head(waiters) = t

\* ------------------------------------------------------------------ actions

\* ---------------------------------------------------------------- Redis

\* expires[k] of a key without a TTL.
NoExpiry == -1

\* window_start[k] of a key that is absent.
NoWindow == -1

\* A reply from Redis, or the exception the client raises instead of one.
Reply(v) == [ok |-> TRUE, value |-> v]
Failed == [ok |-> FALSE, value |-> 0]

\* The key exists.
Live(k) == counter[k] > 0

\* TTL key: -2 for an absent key, -1 for a key without a TTL, else the time
\* left rounded to the nearest second, which for a key with between n-1 and n
\* seconds left is n-1 or n.
TTLReplies(k) ==
    IF ~Live(k) THEN {-2}
    ELSE IF expires[k] = NoExpiry THEN {-1}
    ELSE {expires[k] - redis_time - 1, expires[k] - redis_time}

\* How a RateLimiter call returned: allow_request(k) returned the boolean,
\* get_retry_after(k) the number of seconds, reset(k) None.
AllowReturned(k, b) == [op |-> "allow", key |-> k, allowed |-> b, seconds |-> 0]
RetryAfterReturned(k, n) == [op |-> "retry_after", key |-> k, allowed |-> FALSE, seconds |-> n]
ResetReturned(k) == [op |-> "reset", key |-> k, allowed |-> FALSE, seconds |-> 0]
NothingReturned == [op |-> "none", key |-> "client_1", allowed |-> FALSE, seconds |-> 0]

\* A RateLimiter(redis_client, threshold=R, window_seconds=W) and an empty Redis.
RLFresh(R, W) ==
    /\ threshold = R
    /\ window_seconds = W
    /\ counter = [k \in Keys |-> 0]
    /\ expires = [k \in Keys |-> NoExpiry]
    /\ redis_time = 0
    /\ rl_pc = [t \in Tasks |-> "idle"]
    /\ rl_key = [t \in Tasks |-> "client_1"]
    /\ reply = Reply(0)
    /\ rl_last = NothingReturned
    /\ window_start = [k \in Keys |-> NoWindow]
    /\ obtained = [k \in Keys |-> <<>>]
    /\ denied = [k \in Keys |-> FALSE]

\* A CircuitBreaker(failure_threshold=T, reset_timeout_seconds=S).
BreakerFresh(T, S) ==
    /\ state = CLOSED
    /\ failure_count = 0
    /\ success_count = 0
    /\ last_failure_time = 0
    /\ failure_threshold = T
    /\ reset_timeout = S
    /\ locked = FALSE
    /\ waiters = <<>>
    /\ now = StartTime
    /\ last_state_change = now
    /\ pc = [t \in Tasks |-> "idle"]
    /\ outcome = NotEnded

\* ---------------------------------------------------------------- cache

\* The cache keys in use, and the patterns clear_pattern() is called with.
CacheKeys == {"summary:a", "summary:b", "metric:a"}
Patterns == {"summary:*", "metric:*", "nonexistent:*"}

\* KEYS pattern: the pattern a key matches.
Matches(pattern, k) ==
    pattern = (IF k \in {"summary:a", "summary:b"} THEN "summary:*" ELSE "metric:*")

\* The keys that set(), get() and get_or_set() are called with.
HotKeys == {"summary:a", "metric:a"}

\* Python values that json.dumps accepts: None, the falsy 0, False and [], a
\* list and a tuple.
Values == {"None", "0", "False", "[]", "[1]", "(1,)"}

\* The values set() stores before a clear_pattern(): KEYS and DELETE look at
\* the keys only, so a falsy value and a list stand for the rest.
ClearedValues == {"0", "[1]"}

\* GET of an absent key.
Nil == "nil"

\* summary.dict(): the dict of a MetricSummary, which is never empty.
Summary == "summary"

\* The cache keys of get_metrics_summary() requests.
SummaryKeys == {"summary:a", "summary:b"}

\* A request whose period is none of all, daily, hourly (routes.py line 122).
InvalidPeriod == "summary:a:yearly"

\* What a request asks for: a type and a valid period, or an invalid period.
SummaryRequests == SummaryKeys \cup {InvalidPeriod}

\* Values found under a summary key that the handler did not store: a falsy
\* one and a truthy one that is not a mapping.
ForeignValues == {"0", "[1]"}

\* The summary key they are found under.
ForeignKey == "summary:a"

\* json.dumps(value): a tuple is written as a JSON array.
Dumps(v) ==
    CASE v = "None" -> "null"
      [] v = "0" -> "0"
      [] v = "summary" -> "{summary}"
      [] v = "False" -> "false"
      [] v = "[]" -> "[]"
      [] v = "[1]" -> "[1]"
      [] v = "(1,)" -> "[1]"

\* json.loads that reads null as a value of its own, distinct from None.
Loads_KeepsNull(text) ==
    CASE text = "null" -> "null"
      [] text = "0" -> "0"
      [] text = "{summary}" -> "summary"
      [] text = "false" -> "False"
      [] text = "[]" -> "[]"
      [] text = "[1]" -> "[1]"

\* json.loads(text): a JSON array is read as a list.
Loads(text) ==
    CASE text = "null" -> "None"
      [] text = "0" -> "0"
      [] text = "{summary}" -> "summary"
      [] text = "false" -> "False"
      [] text = "[]" -> "[]"
      [] text = "[1]" -> "[1]"

\* bool(cached_data) at line 23: None and the empty string are falsy.
Truthy(cached_data) == cached_data \notin {Nil, ""}

\* ttl_seconds=None in a call of set() or get_or_set().
Unset == -1

\* The TTL arguments set() is called with.
TTLArgs == {Unset} \cup 0..MaxTTL

\* put[k] when set() was not called for k.
NoPut == [value |-> "None", left |-> 0, live |-> FALSE]

\* A task with no get_or_set() or clear_pattern() in progress; failed tells
\* whether a Redis command has failed in the call in progress.
NoCall == [pc |-> "idle", key |-> "", data |-> "None", keys |-> {}, invoked |-> 0,
           failed |-> FALSE]

\* How a CacheService call returned: the value get() and get_or_set()
\* returned, the boolean set() and delete() returned, the count
\* clear_pattern() returned; the key or pattern of a get(), get_or_set() or
\* clear_pattern(); how often it invoked the producer; whether it sent a
\* write to Redis; whether a Redis command failed in it.
CacheReturned(op, k) ==
    [op |-> op, key |-> k, value |-> "None", ok |-> FALSE, count |-> 0,
     invoked |-> 0, wrote |-> FALSE, failed |-> FALSE]

\* A CacheService(redis_client, default_ttl_seconds=D) and an empty Redis.
\* The cache of a process that finds text stored under key, with D seconds
\* left, in the Redis it connects to.
CacheFound(D, key, text) ==
    /\ default_ttl_seconds = D
    /\ entry = [k \in CacheKeys |-> IF k = key THEN text ELSE Nil]
    /\ entry_ttl = [k \in CacheKeys |-> IF k = key /\ text # Nil THEN D ELSE NoExpiry]
    /\ cache_call = [t \in Tasks |-> NoCall]
    /\ cache_last = CacheReturned("none", "")
    /\ put = [k \in CacheKeys |-> NoPut]

CacheFresh(D) ==
    /\ default_ttl_seconds = D
    /\ entry = [k \in CacheKeys |-> Nil]
    /\ entry_ttl = [k \in CacheKeys |-> NoExpiry]
    /\ cache_call = [t \in Tasks |-> NoCall]
    /\ cache_last = CacheReturned("none", "")
    /\ put = [k \in CacheKeys |-> NoPut]

\* RedisClient._instance and the three globals of routes when they are None.
Missing == 0

\* The arguments constructors and settings are given.
Args == (0 - MaxArg)..MaxArg

\* The constructor parameters that are a threshold, a TTL or a window.
Params == {<<"CircuitBreaker", "failure_threshold">>,
           <<"CircuitBreaker", "reset_timeout_seconds">>,
           <<"RateLimiter", "threshold">>,
           <<"RateLimiter", "window_seconds">>,
           <<"CacheService", "default_ttl_seconds">>}

\* The settings those parameters default to.
SettingNames == {"CIRCUIT_BREAKER_FAILURE_THRESHOLD", "CIRCUIT_BREAKER_RESET_TIMEOUT",
                 "RATE_LIMIT_REQUESTS", "RATE_LIMIT_WINDOW_SECONDS", "CACHE_TTL_SECONDS"}

\* The settings Settings.validate() asserts to be positive (lines 48-51).
Validated == {"RATE_LIMIT_REQUESTS", "CACHE_TTL_SECONDS",
              "CIRCUIT_BREAKER_FAILURE_THRESHOLD", "CIRCUIT_BREAKER_RESET_TIMEOUT"}

\* How a constructor or Settings.validate() call ended.
Built(cls, param, arg, raised) ==
    [cls |-> cls, param |-> param, arg |-> arg, raised |-> raised]

\* How an initialize() or get_services() call ended: with the number of the
\* connection or of the construction it returned, or with an exception.
Got(op, id) == [op |-> op, id |-> id, raised |-> FALSE]
Raised(op) == [op |-> op, id |-> Missing, raised |-> TRUE]

\* How a get_metrics_summary() request ended: what it returned and from
\* where, whether it called the circuit breaker and what the call gave,
\* whether it sent the summary to the cache.
SummaryReturned(k, source, called, gave, stored) ==
    [key |-> k, source |-> source, called |-> called, gave |-> gave, stored |-> stored]

\* What a get_state() or get_status() made at time t returned: the state,
\* and for get_status() the dictionary as well.
Reported(method, st, status, t) ==
    [method |-> method, state |-> st, status |-> status, at |-> t]

\* Neither method has been called.
StatusFresh == reported = Reported("none", "none", {}, 0)

\* No request has been made.
SummaryFresh ==
    /\ summary_pc = [t \in Tasks |-> "idle"]
    /\ summary_key = [t \in Tasks |-> ""]
    /\ summary_last = SummaryReturned("", "none", FALSE, "none", FALSE)

\* The process before startup: no connection, no services.
BootFresh ==
    /\ instance = Missing
    /\ connections = 0
    /\ services = Missing
    /\ constructed = 0
    /\ boot_pc = [t \in Tasks |-> "idle"]
    /\ boot_got = [t \in Tasks |-> Got("none", Missing)]
    /\ built = Built("none", "", 1, FALSE)
    /\ closed = FALSE

Init ==
    /\ \E T \in 1..MaxThreshold, S \in 1..MaxResetTimeout : BreakerFresh(T, S)
    /\ RLFresh(MaxRate, MaxWindow)
    /\ CacheFresh(MaxTTL)
    /\ BootFresh
    /\ SummaryFresh
    /\ StatusFresh

\* time passes
Tick ==
    /\ now < StartTime + MaxTicks
    /\ now' = now + 1
    /\ UNCHANGED <<state, failure_count, success_count, last_failure_time,
                   last_state_change, config, locked, waiters, pc, outcome>>

\* call() whose HALF_OPEN path invokes the operation without taking the lock
CallEnter_NoLock(t) ==
    /\ pc[t] = "idle"
    /\ success_count < MaxSuccessCount
    /\ LET b == CheckStateTransition(Breaker, now)
       IN  /\ SetBreaker(b)
           /\ CASE b.state = OPEN ->
                     /\ outcome' = Ended("rejected", CircuitBreakerOpenError)
                     /\ UNCHANGED pc
                [] b.state = HALF_OPEN ->
                     /\ pc' = [pc EXCEPT ![t] = "probe_op"]
                     /\ UNCHANGED outcome
                [] b.state = CLOSED ->
                     /\ pc' = [pc EXCEPT ![t] = "closed_op"]
                     /\ UNCHANGED outcome
    /\ UNCHANGED <<config, now, locked, waiters>>

\* call(): from entry to the first suspension (lines 95-107 and 120-122).
CallEnter(t) ==
    /\ pc[t] = "idle"
    /\ success_count < MaxSuccessCount
    /\ LET b == CheckStateTransition(Breaker, now)
       IN  /\ SetBreaker(b)
           /\ CASE b.state = OPEN ->
                     /\ outcome' = Ended("rejected", CircuitBreakerOpenError)
                     /\ UNCHANGED <<pc, locked, waiters>>
                [] b.state = HALF_OPEN /\ LockFree ->
                     /\ locked' = TRUE
                     /\ pc' = [pc EXCEPT ![t] = "probe_op"]
                     /\ UNCHANGED <<waiters, outcome>>
                [] b.state = HALF_OPEN /\ ~LockFree ->
                     /\ waiters' = Append(waiters, t)
                     /\ pc' = [pc EXCEPT ![t] = "probe_wait"]
                     /\ UNCHANGED <<locked, outcome>>
                [] b.state = CLOSED ->
                     /\ pc' = [pc EXCEPT ![t] = "closed_op"]
                     /\ UNCHANGED <<locked, waiters, outcome>>
    /\ UNCHANGED <<config, now>>

\* call(): a caller that waited at line 104 gets the lock and invokes the
\* operation (line 107).
ProbeAcquired(t) ==
    /\ pc[t] = "probe_wait"
    /\ Woken(t)
    /\ waiters' = Tail(waiters)
    /\ locked' = TRUE
    /\ pc' = [pc EXCEPT ![t] = "probe_op"]
    /\ UNCHANGED <<state, failure_count, success_count, last_failure_time,
                   last_state_change, config, now, outcome>>

\* call(): the operation invoked at line 107 returns (lines 108-112).
ProbeSuccess(t) ==
    /\ pc[t] = "probe_op"
    /\ SetBreaker(ProbeSucceeded(Breaker, now))
    /\ locked' = FALSE
    /\ pc' = [pc EXCEPT ![t] = "idle"]
    /\ outcome' = Ended("probe", Result)
    /\ UNCHANGED <<config, waiters, now>>

\* The except branch of the HALF_OPEN path re-raising the operation's error
ProbeFailure_Reraises(t) ==
    /\ pc[t] = "probe_op"
    /\ SetBreaker(ProbeFailed(Breaker, now))
    /\ locked' = FALSE
    /\ pc' = [pc EXCEPT ![t] = "idle"]
    /\ outcome' = Ended("probe", OperationError)
    /\ UNCHANGED <<config, waiters, now>>

\* The except branch of the HALF_OPEN path leaving the lock held
ProbeFailure_KeepsLock(t) ==
    /\ pc[t] = "probe_op"
    /\ SetBreaker(ProbeFailed(Breaker, now))
    /\ pc' = [pc EXCEPT ![t] = "idle"]
    /\ outcome' = Ended("probe", CircuitBreakerOpenError)
    /\ UNCHANGED <<config, locked, waiters, now>>

\* call(): the operation invoked at line 107 raises (lines 113-118).
ProbeFailure(t) ==
    /\ pc[t] = "probe_op"
    /\ SetBreaker(ProbeFailed(Breaker, now))
    /\ locked' = FALSE
    /\ pc' = [pc EXCEPT ![t] = "idle"]
    /\ outcome' = Ended("probe", CircuitBreakerOpenError)
    /\ UNCHANGED <<config, waiters, now>>

\* call(): the operation invoked at line 122 returns (lines 123-124).
ClosedSuccess(t) ==
    /\ pc[t] = "closed_op"
    /\ SetBreaker(RecordSuccess(Breaker))
    /\ pc' = [pc EXCEPT ![t] = "idle"]
    /\ outcome' = Ended("closed", Result)
    /\ UNCHANGED <<config, locked, waiters, now>>

\* call(): the operation invoked at line 122 raises (lines 125-131); the
\* failure is counted at once when the lock is free, else the task waits.
ClosedFailure(t) ==
    /\ pc[t] = "closed_op"
    /\ IF LockFree
       THEN /\ SetBreaker(CountFailure(Breaker, now))
            /\ pc' = [pc EXCEPT ![t] = "idle"]
            /\ outcome' = Ended("closed", OperationError)
            /\ UNCHANGED waiters
       ELSE /\ waiters' = Append(waiters, t)
            /\ pc' = [pc EXCEPT ![t] = "fail_wait"]
            /\ UNCHANGED <<state, failure_count, success_count,
                           last_failure_time, last_state_change, outcome>>
    /\ UNCHANGED <<config, locked, now>>

\* call(): a caller that waited at line 126 gets the lock, counts its
\* failure, releases the lock and re-raises (lines 126-131).
FailureAcquired(t) ==
    /\ pc[t] = "fail_wait"
    /\ Woken(t)
    /\ waiters' = Tail(waiters)
    /\ SetBreaker(CountFailure(Breaker, now))
    /\ pc' = [pc EXCEPT ![t] = "idle"]
    /\ outcome' = Ended("closed", OperationError)
    /\ UNCHANGED <<config, locked, now>>

\* reset(): runs at once when the lock is free, else the task waits.
ResetEnter(t) ==
    /\ pc[t] = "idle"
    /\ IF LockFree
       THEN /\ SetBreaker(ResetBody(Breaker, now))
            /\ UNCHANGED <<pc, waiters>>
       ELSE /\ waiters' = Append(waiters, t)
            /\ pc' = [pc EXCEPT ![t] = "reset_wait"]
            /\ UNCHANGED <<state, failure_count, success_count,
                           last_failure_time, last_state_change>>
    /\ UNCHANGED <<config, locked, now, outcome>>

\* reset(): a caller that waited at line 180 gets the lock and resets.
ResetAcquired(t) ==
    /\ pc[t] = "reset_wait"
    /\ Woken(t)
    /\ waiters' = Tail(waiters)
    /\ SetBreaker(ResetBody(Breaker, now))
    /\ pc' = [pc EXCEPT ![t] = "idle"]
    /\ UNCHANGED <<config, locked, now, outcome>>

CallStep(t) ==
    \/ CallEnter(t)
    \/ ProbeAcquired(t)
    \/ ProbeSuccess(t)
    \/ ProbeFailure(t)
    \/ ClosedSuccess(t)
    \/ ClosedFailure(t)
    \/ FailureAcquired(t)

ResetStep(t) ==
    \/ ResetEnter(t)
    \/ ResetAcquired(t)

Next ==
    \/ Tick /\ UNCHANGED beside_breaker
    \/ \E t \in Tasks : CallStep(t) /\ UNCHANGED beside_breaker
    \/ \E t \in Tasks : ResetStep(t) /\ UNCHANGED beside_breaker

Spec == Init /\ [][Next]_vars

\* Calls issued one at a time, as the tests issue them: a call or a reset
\* starts only when no other is in progress, so the lock is never contended.
Quiet == \A t \in Tasks : pc[t] = "idle"

SeqNext ==
    \/ Tick /\ UNCHANGED beside_breaker
    \/ \E t \in Tasks : Quiet /\ CallEnter(t) /\ UNCHANGED beside_breaker
    \/ \E t \in Tasks : ProbeSuccess(t) /\ UNCHANGED beside_breaker
    \/ \E t \in Tasks : ProbeFailure(t) /\ UNCHANGED beside_breaker
    \/ \E t \in Tasks : ClosedSuccess(t) /\ UNCHANGED beside_breaker
    \/ \E t \in Tasks : ClosedFailure(t) /\ UNCHANGED beside_breaker
    \/ \E t \in Tasks : Quiet /\ ResetEnter(t) /\ UNCHANGED beside_breaker

SpecSeq == Init /\ [][SeqNext]_vars

\* ------------------------------------------------------------ scheduling

\* The protected operation invoked for task t terminates, by returning or by
\* raising.
OperationEnds(t) ==
    /\ \/ ProbeSuccess(t)
       \/ ProbeFailure(t)
       \/ ClosedSuccess(t)
       \/ ClosedFailure(t)
    /\ UNCHANGED beside_breaker

\* The event loop runs the task that asyncio.Lock.release() woke.
Resumes(t) ==
    /\ \/ ProbeAcquired(t)
       \/ FailureAcquired(t)
       \/ ResetAcquired(t)
    /\ UNCHANGED beside_breaker

\* Every operation terminates and the event loop runs every task that is
\* ready; nothing obliges a task to start a call or a reset, or time to pass.
Fairness ==
    \A t \in Tasks : WF_vars(OperationEnds(t)) /\ WF_vars(Resumes(t))

\* Termination depends on the lock and not on the clock: the breaker is built
\* with any threshold and a reset_timeout of one second, and time passes far
\* enough for the breaker to become eligible for probes.
LiveInit ==
    /\ \E T \in 1..MaxThreshold : BreakerFresh(T, 1)
    /\ RLFresh(MaxRate, MaxWindow)
    /\ CacheFresh(MaxTTL)
    /\ BootFresh
    /\ SummaryFresh
    /\ StatusFresh

LiveNext ==
    \/ now - StartTime < reset_timeout /\ Tick /\ UNCHANGED beside_breaker
    \/ \E t \in Tasks : CallStep(t) /\ UNCHANGED beside_breaker
    \/ \E t \in Tasks : ResetStep(t) /\ UNCHANGED beside_breaker

SpecLive == LiveInit /\ [][LiveNext]_vars /\ Fairness

\* ------------------------------------------- get_state() and get_status()

\* get_state() that runs _check_state_transition() before it answers
GetStateCall_Checks ==
    LET b == CheckStateTransition(Breaker, now)
    IN  /\ SetBreaker(b)
        /\ reported' = Reported("get_state", b.state, {}, now)
        /\ UNCHANGED <<config, locked, waiters, now, pc, outcome>>

\* get_state() (lines 67-69): returns _state.
GetStateCall ==
    /\ reported' = Reported("get_state", Breaker.state, {}, now)
    /\ UNCHANGED breaker_vars

\* get_status() (lines 71-78): returns the four fields as a dictionary.
GetStatusCall ==
    /\ reported' = Reported("get_status", GetStatus(Breaker).state,
                             {GetStatus(Breaker)}, now)
    /\ UNCHANGED breaker_vars

\* Calls and resets issued one at a time, observed at any moment, also while
\* an operation is in flight, through get_state() and get_status().
StatusNext ==
    \/ Tick /\ UNCHANGED beside_breaker
    \/ \E t \in Tasks : Quiet /\ CallEnter(t) /\ UNCHANGED beside_breaker
    \/ \E t \in Tasks : ProbeSuccess(t) /\ UNCHANGED beside_breaker
    \/ \E t \in Tasks : ProbeFailure(t) /\ UNCHANGED beside_breaker
    \/ \E t \in Tasks : ClosedSuccess(t) /\ UNCHANGED beside_breaker
    \/ \E t \in Tasks : ClosedFailure(t) /\ UNCHANGED beside_breaker
    \/ \E t \in Tasks : Quiet /\ ResetEnter(t) /\ UNCHANGED beside_breaker
    \/ GetStateCall /\ UNCHANGED beside_status
    \/ GetStatusCall /\ UNCHANGED beside_status

SpecStatus == Init /\ [][StatusNext]_vars

\* ------------------------------------------------------------------ claims

\* The operation has been invoked for task t and has not yet completed.
Invoking(t) == pc[t] \in {"closed_op", "probe_op"}

\* Task t's call ends in this step on the CLOSED path with the operation's failure.
ClosedFailureEnds(t) ==
    /\ pc[t] \in {"closed_op", "fail_wait"}
    /\ pc'[t] = "idle"
    /\ outcome'.gave # Result

\* Task t's call ends in this step on the HALF_OPEN path.
ProbeEnds(t) == pc[t] = "probe_op" /\ pc'[t] = "idle"

Elapsed == now - last_failure_time

\* C1: with calls issued one at a time, every failing call made while Closed
\* adds one to failure_count, and the breaker is Open after it exactly when
\* the count has reached failure_threshold; it is never Closed with the
\* count at the threshold.  From Closed with failure_count = 0 the breaker is
\* therefore still Closed after T-1 failing calls and Open after the T-th.
C1_TripsAtThreshold ==
    /\ [](state = CLOSED => failure_count < failure_threshold)
    /\ [][\A t \in Tasks :
            (ClosedFailureEnds(t) /\ state = CLOSED) =>
                /\ failure_count' = failure_count + 1
                /\ state' = IF failure_count + 1 >= failure_threshold
                            THEN OPEN ELSE CLOSED]_vars

\* The T-th consecutive failure, for the largest threshold, has tripped the breaker.
C1_Witness ==
    /\ state = OPEN
    /\ failure_threshold = MaxThreshold
    /\ failure_count = failure_threshold
    /\ success_count = 0
    /\ outcome = Ended("closed", OperationError)

\* C2: a call that arrives while the breaker is Open and less than
\* reset_timeout has elapsed since last_failure_time raises
\* CircuitBreakerOpenError, does not invoke the operation, and leaves the
\* state Open and the counts unchanged.
C2_RejectsWhileOpen ==
    [][\A t \in Tasks :
        (state = OPEN /\ Elapsed < reset_timeout) =>
            /\ CallEnter(t) =>
                 /\ outcome' = Ended("rejected", CircuitBreakerOpenError)
                 /\ pc'[t] = "idle"
                 /\ state' = OPEN
                 /\ failure_count' = failure_count
                 /\ success_count' = success_count
            /\ pc[t] = "idle" => pc'[t] \notin {"closed_op", "probe_op", "probe_wait"}]_vars

\* A call has just been rejected during the Open period it arrived in.
C2_Witness ==
    /\ state = OPEN
    /\ Elapsed < reset_timeout
    /\ outcome = Ended("rejected", CircuitBreakerOpenError)
    /\ failure_count >= failure_threshold
    /\ Quiet

\* C3: each time the breaker enters HalfOpen at most one caller invokes the
\* operation as a probe: a caller that arrived while the breaker was HalfOpen
\* (or saw eligibility at the timeout boundary) and found the probe section
\* taken is rejected, and never goes on to invoke the operation.
C3_SingleProbe ==
    [][\A t \in Tasks : pc[t] = "probe_wait" => pc'[t] # "probe_op"]_vars

\* C4: no invocation of the protected operation begins while the breaker's
\* state is Open.
C4_NoInvocationWhileOpen ==
    [][\A t \in Tasks : (~Invoking(t) /\ Invoking(t)') => state' # OPEN]_vars

\* The edges of the state machine.
Edges ==
    {<<CLOSED, OPEN>>, <<OPEN, HALF_OPEN>>, <<HALF_OPEN, CLOSED>>, <<HALF_OPEN, OPEN>>}

\* C5: apart from reset(), every change of state is along one of the edges
\* Closed->Open, Open->HalfOpen, HalfOpen->Closed, HalfOpen->Open.
C5_OnlyDefinedEdges ==
    [][state' # state =>
        \/ \E t \in Tasks : ResetStep(t)
        \/ <<state, state'>> \in Edges]_vars

\* C6: when a call made on the HALF_OPEN path ends, either the operation
\* succeeded, the call returns its result and the breaker is Closed with
\* failure_count = 0, or the operation failed and the breaker is Open with
\* last_failure_time set to the time of that failure.
C6_ProbeOutcome ==
    [][\A t \in Tasks :
        ProbeEnds(t) =>
            \/ /\ outcome' = Ended("probe", Result)
               /\ state' = CLOSED
               /\ failure_count' = 0
            \/ /\ outcome'.gave # Result
               /\ state' = OPEN
               /\ last_failure_time' = now]_vars

\* A probe has just succeeded and closed the breaker, after the clock moved.
C6_Witness ==
    /\ outcome = Ended("probe", Result)
    /\ state = CLOSED
    /\ failure_count = 0
    /\ last_state_change = now
    /\ last_failure_time < now
    /\ Quiet

\* C7: a call that arrives while the breaker is Open and at least
\* reset_timeout has elapsed since last_failure_time moves the breaker to
\* HalfOpen and is not rejected: it invokes the operation as the probe, at
\* once when the lock is free and else as soon as it gets the lock.
C7_ProbeAfterTimeout ==
    [][\A t \in Tasks :
        /\ (CallEnter(t) /\ state = OPEN /\ Elapsed >= reset_timeout) =>
              /\ state' = HALF_OPEN
              /\ outcome' = outcome
              /\ pc'[t] = IF LockFree THEN "probe_op" ELSE "probe_wait"
        /\ (pc[t] = "probe_wait" /\ pc'[t] # "probe_wait") => pc'[t] = "probe_op"]_vars

\* A call that arrived exactly reset_timeout after the last failure is probing.
C7_Witness ==
    \E t \in Tasks :
        /\ pc[t] = "probe_op"
        /\ state = HALF_OPEN
        /\ Elapsed = reset_timeout
        /\ last_state_change = now

\* C8: whenever a call completes successfully while the breaker is Closed,
\* failure_count becomes 0, success_count increases by exactly 1 and the
\* state stays Closed, whatever failure_count was before.
C8_SuccessResetsFailures ==
    [][\A t \in Tasks :
        (Invoking(t) /\ pc'[t] = "idle" /\ outcome'.gave = Result /\ state = CLOSED) =>
            /\ failure_count' = 0
            /\ success_count' = success_count + 1
            /\ state' = CLOSED]_vars

\* A success has just been counted in a Closed period in which a failure was
\* counted before it.
C8_Witness ==
    /\ outcome = Ended("closed", Result)
    /\ state = CLOSED
    /\ failure_count = 0
    /\ success_count = 1
    /\ last_failure_time > last_state_change
    /\ Quiet

\* C9: a failing call admitted while Closed always gives its caller the
\* operation's own error, after failure_count has been incremented, also when
\* that failure trips the breaker; a failing HALF_OPEN probe gives its caller
\* CircuitBreakerOpenError instead.
C9_ErrorSurfaced ==
    [][\A t \in Tasks :
        /\ ClosedFailureEnds(t) =>
              /\ outcome' = Ended("closed", OperationError)
              /\ failure_count' = failure_count + 1
        /\ ProbeEnds(t) /\ outcome'.gave # Result =>
              outcome' = Ended("probe", CircuitBreakerOpenError)]_vars

\* The failure that tripped the breaker has surfaced as the operation's error.
C9_Witness ==
    /\ outcome = Ended("closed", OperationError)
    /\ state = OPEN
    /\ failure_count = failure_threshold
    /\ last_state_change = last_failure_time
    /\ last_failure_time = now

\* C10 as stated: after a successful HalfOpen probe, status() reports state
\* Closed, failure_count = 0 and success_count = 1.
C10_CountsAfterProbe_Original ==
    [][\A t \in Tasks :
        (ProbeEnds(t) /\ state = HALF_OPEN /\ outcome'.gave = Result) =>
            /\ Status'.state = CLOSED
            /\ Status'.failure_count = 0
            /\ Status'.success_count = 1]_vars

\* C10 as amended: after a successful HalfOpen probe, status() reports state
\* Closed, failure_count = 0 and success_count = 0: the probe's success is
\* counted first and the transition to Closed then clears both counts.
C10_CountsAfterProbe ==
    [][\A t \in Tasks :
        (ProbeEnds(t) /\ state = HALF_OPEN /\ outcome'.gave = Result) =>
            /\ Status'.state = CLOSED
            /\ Status'.failure_count = 0
            /\ Status'.success_count = 0]_vars

\* status() right after a successful probe that closed the breaker.
C10_Witness ==
    /\ outcome = Ended("probe", Result)
    /\ Status.state = CLOSED
    /\ Status.failure_count = 0
    /\ Status.success_count = 0
    /\ last_state_change = now
    /\ ~locked

\* reset() runs its body in this step for task t.
ResetReturns(t) ==
    \/ ResetEnter(t) /\ LockFree
    \/ ResetAcquired(t)

\* C11: reset() called in any state leaves the breaker Closed with
\* failure_count = 0 and success_count = 0 at the moment it returns.
C11_ResetCloses ==
    [][\A t \in Tasks :
        ResetReturns(t) =>
            /\ state' = CLOSED
            /\ failure_count' = 0
            /\ success_count' = 0]_vars

\* reset() has closed a breaker that a failure had opened: the last call to
\* end was a counted failure, and the state changed to Closed after it.
C11_Witness ==
    /\ state = CLOSED
    /\ failure_count = 0
    /\ success_count = 0
    /\ outcome = Ended("closed", OperationError)
    /\ last_failure_time >= StartTime
    /\ last_state_change > last_failure_time

\* The tasks whose HALF_OPEN-path invocation of the operation is in flight.
Probing == {t \in Tasks : pc[t] = "probe_op"}

\* C12: at no point are two HALF_OPEN-path invocations of the operation in
\* flight at the same time, and whenever one is in flight the lock is held.
C12_OneProbeInFlight ==
    /\ Cardinality(Probing) <= 1
    /\ Probing # {} => locked

\* One probe is in flight while a second caller waits for the lock.
C12_Witness ==
    \E t, u \in Tasks :
        /\ pc[t] = "probe_op"
        /\ pc[u] = "probe_wait"
        /\ locked
        /\ waiters = <<u>>

\* C13: every transition from Closed to Open happens at a moment when
\* failure_count >= failure_threshold.
C13_OpensAtThreshold ==
    [][(state = CLOSED /\ state' = OPEN) =>
            failure_count' >= failure_threshold]_vars


(***************************************************************************)
(* RateLimiter.  allow_request() makes one or two round trips to Redis,    *)
(* INCR and, for the caller that obtained 1, EXPIRE; get_retry_after() and *)
(* reset() make one.  A command that fails raises in the client; Redis may *)
(* or may not have applied it.                                             *)
(***************************************************************************)

\* Redis removes a key when its expiry time is reached.
Expired(k, time) == Live(k) /\ expires[k] # NoExpiry /\ expires[k] <= time

RedisTick ==
    /\ redis_time < MaxRedisTime
    /\ redis_time' = redis_time + 1
    /\ counter' = [k \in Keys |-> IF Expired(k, redis_time + 1) THEN 0 ELSE counter[k]]
    /\ expires' = [k \in Keys |-> IF Expired(k, redis_time + 1) THEN NoExpiry ELSE expires[k]]
    /\ obtained' = [k \in Keys |-> IF Expired(k, redis_time + 1) THEN <<>> ELSE obtained[k]]
    /\ window_start' = [k \in Keys |->
                            IF Expired(k, redis_time + 1) THEN NoWindow ELSE window_start[k]]
    /\ UNCHANGED <<threshold, window_seconds, rl_pc, rl_key, reply, rl_last, denied>>

\* INCR key, applied by Redis: the key's value, created at 0 when absent, plus one.
Incremented(k) == [counter EXCEPT ![k] = counter[k] + 1]

\* EXPIRE key seconds, applied by Redis: no effect on an absent key.
WithExpiry(k, seconds) ==
    IF Live(k) THEN [expires EXCEPT ![k] = redis_time + seconds] ELSE expires

\* What allow_request() does with the count INCR gave it (lines 61-67).
AfterIncr_DeniesAtThreshold(current_count) ==
    IF current_count = 1 THEN "expire"
    ELSE IF current_count >= threshold THEN "deny"
    ELSE "allow"

AfterIncr(current_count) ==
    IF current_count = 1 THEN "expire"
    ELSE IF current_count > threshold THEN "deny"
    ELSE "allow"

\* What allow_request() returns when a Redis command raises (line 71).
AllowOnError_FailClosed == FALSE

AllowOnError == TRUE

\* What get_retry_after() returns for the TTL Redis reported (line 77).
RetryAfterValue_NoFloor(ttl) == ttl

RetryAfterValue(ttl) == IF ttl > 1 THEN ttl ELSE 1

\* What get_retry_after() returns when the TTL command raises (line 80).
RetryAfterOnError == window_seconds

\* allow_request(k), line 59 and the branch taken on its reply: the caller
\* with count 1 goes on to EXPIRE, every other caller returns.
AllowRequestIncr_NotAtomic(t, k) ==
    /\ rl_pc[t] = "idle"
    /\ counter[k] < MaxCount
    /\ \E n \in {counter[k] + 1} \cup (IF Live(k) THEN {counter[k]} ELSE {}) :
        /\ counter' = [counter EXCEPT ![k] = n]
        /\ obtained' = [obtained EXCEPT ![k] = Append(@, n)]
        /\ window_start' = [window_start EXCEPT ![k] = IF n = 1 THEN redis_time ELSE @]
        /\ IF AfterIncr(n) = "expire"
           THEN /\ rl_pc' = [rl_pc EXCEPT ![t] = "expire"]
                /\ rl_key' = [rl_key EXCEPT ![t] = k]
                /\ UNCHANGED <<reply, rl_last, denied>>
           ELSE /\ reply' = Reply(n)
                /\ rl_last' = AllowReturned(k, AfterIncr(n) = "allow")
                /\ denied' = [denied EXCEPT ![k] = @ \/ AfterIncr(n) = "deny"]
                /\ UNCHANGED <<rl_pc, rl_key>>
    /\ UNCHANGED <<threshold, window_seconds, expires, redis_time>>

AllowRequestIncr_RollsBackDenied(t, k) ==
    /\ rl_pc[t] = "idle"
    /\ counter[k] < MaxCount
    /\ LET n == counter[k] + 1 IN
        /\ counter' = IF AfterIncr(n) = "deny" THEN counter ELSE Incremented(k)
        /\ obtained' = [obtained EXCEPT ![k] = Append(@, n)]
        /\ window_start' = [window_start EXCEPT ![k] = IF n = 1 THEN redis_time ELSE @]
        /\ IF AfterIncr(n) = "expire"
           THEN /\ rl_pc' = [rl_pc EXCEPT ![t] = "expire"]
                /\ rl_key' = [rl_key EXCEPT ![t] = k]
                /\ UNCHANGED <<reply, rl_last, denied>>
           ELSE /\ reply' = Reply(n)
                /\ rl_last' = AllowReturned(k, AfterIncr(n) = "allow")
                /\ denied' = [denied EXCEPT ![k] = @ \/ AfterIncr(n) = "deny"]
                /\ UNCHANGED <<rl_pc, rl_key>>
    /\ UNCHANGED <<threshold, window_seconds, expires, redis_time>>

\* allow_request(k) that goes on to EXPIRE whenever the key has no TTL.
AllowRequestIncr_RenewsTTL(t, k) ==
    /\ rl_pc[t] = "idle"
    /\ counter[k] < MaxCount
    /\ LET n == counter[k] + 1 IN
        /\ counter' = Incremented(k)
        /\ obtained' = [obtained EXCEPT ![k] = Append(@, n)]
        /\ window_start' = [window_start EXCEPT ![k] = IF n = 1 THEN redis_time ELSE @]
        /\ IF expires[k] = NoExpiry
           THEN /\ rl_pc' = [rl_pc EXCEPT ![t] = "expire"]
                /\ rl_key' = [rl_key EXCEPT ![t] = k]
                /\ UNCHANGED <<reply, rl_last, denied>>
           ELSE /\ reply' = Reply(n)
                /\ rl_last' = AllowReturned(k, AfterIncr(n) = "allow")
                /\ denied' = [denied EXCEPT ![k] = @ \/ AfterIncr(n) = "deny"]
                /\ UNCHANGED <<rl_pc, rl_key>>
    /\ UNCHANGED <<threshold, window_seconds, expires, redis_time>>

AllowRequestIncr(t, k) ==
    /\ rl_pc[t] = "idle"
    /\ counter[k] < MaxCount
    /\ LET n == counter[k] + 1 IN
        /\ counter' = Incremented(k)
        /\ obtained' = [obtained EXCEPT ![k] = Append(@, n)]
        /\ window_start' = [window_start EXCEPT ![k] = IF n = 1 THEN redis_time ELSE @]
        /\ IF AfterIncr(n) = "expire"
           THEN /\ rl_pc' = [rl_pc EXCEPT ![t] = "expire"]
                /\ rl_key' = [rl_key EXCEPT ![t] = k]
                /\ UNCHANGED <<reply, rl_last, denied>>
           ELSE /\ reply' = Reply(n)
                /\ rl_last' = AllowReturned(k, AfterIncr(n) = "allow")
                /\ denied' = [denied EXCEPT ![k] = @ \/ AfterIncr(n) = "deny"]
                /\ UNCHANGED <<rl_pc, rl_key>>
    /\ UNCHANGED <<threshold, window_seconds, expires, redis_time>>

\* allow_request(k) when INCR raises: lines 68-71.
AllowRequestIncrFails(t, k) ==
    /\ rl_pc[t] = "idle"
    /\ counter[k] < MaxCount
    /\ \E applied \in BOOLEAN :
        /\ counter' = IF applied THEN Incremented(k) ELSE counter
        /\ obtained' = IF applied THEN [obtained EXCEPT ![k] = Append(@, counter[k] + 1)]
                       ELSE obtained
        /\ window_start' = [window_start EXCEPT
                                ![k] = IF applied /\ ~Live(k) THEN redis_time ELSE @]
    /\ reply' = Failed
    /\ rl_last' = AllowReturned(k, AllowOnError)
    /\ UNCHANGED <<threshold, window_seconds, expires, redis_time, rl_pc, rl_key, denied>>

\* allow_request(k), line 63 and the return at line 67.
AllowRequestExpire_NoTTL(t) ==
    /\ rl_pc[t] = "expire"
    /\ reply' = Reply(0)
    /\ rl_last' = AllowReturned(rl_key[t], TRUE)
    /\ rl_pc' = [rl_pc EXCEPT ![t] = "idle"]
    /\ rl_key' = [rl_key EXCEPT ![t] = "client_1"]
    /\ UNCHANGED <<threshold, window_seconds, counter, expires, redis_time,
                   window_start, obtained, denied>>

AllowRequestExpire(t) ==
    /\ rl_pc[t] = "expire"
    /\ expires' = WithExpiry(rl_key[t], window_seconds)
    /\ reply' = Reply(IF Live(rl_key[t]) THEN 1 ELSE 0)
    /\ rl_last' = AllowReturned(rl_key[t], TRUE)
    /\ rl_pc' = [rl_pc EXCEPT ![t] = "idle"]
    /\ rl_key' = [rl_key EXCEPT ![t] = "client_1"]
    /\ UNCHANGED <<threshold, window_seconds, counter, redis_time,
                   window_start, obtained, denied>>

\* allow_request(k) when EXPIRE raises: lines 68-71.
AllowRequestExpireFails(t) ==
    /\ rl_pc[t] = "expire"
    /\ \E applied \in BOOLEAN :
        expires' = IF applied THEN WithExpiry(rl_key[t], window_seconds) ELSE expires
    /\ reply' = Failed
    /\ rl_last' = AllowReturned(rl_key[t], AllowOnError)
    /\ rl_pc' = [rl_pc EXCEPT ![t] = "idle"]
    /\ rl_key' = [rl_key EXCEPT ![t] = "client_1"]
    /\ UNCHANGED <<threshold, window_seconds, counter, redis_time,
                   window_start, obtained, denied>>

\* get_retry_after(k): lines 76-77.
GetRetryAfter(k) ==
    /\ \E ttl \in TTLReplies(k) :
        /\ reply' = Reply(ttl)
        /\ rl_last' = RetryAfterReturned(k, RetryAfterValue(ttl))
    /\ UNCHANGED <<threshold, window_seconds, counter, expires, redis_time, rl_pc,
                   rl_key, window_start, obtained, denied>>

\* get_retry_after(k) when TTL raises: lines 78-80.
GetRetryAfterFails(k) ==
    /\ reply' = Failed
    /\ rl_last' = RetryAfterReturned(k, RetryAfterOnError)
    /\ UNCHANGED <<threshold, window_seconds, counter, expires, redis_time, rl_pc,
                   rl_key, window_start, obtained, denied>>

\* DEL key, applied by Redis.
Deleted_Nothing(k) == counter

Deleted(k) == [counter EXCEPT ![k] = 0]

\* reset(k): lines 84-85; it returns None.
LimiterReset(k) ==
    /\ counter' = Deleted(k)
    /\ expires' = [expires EXCEPT ![k] = NoExpiry]
    /\ obtained' = [obtained EXCEPT ![k] = <<>>]
    /\ window_start' = [window_start EXCEPT ![k] = NoWindow]
    /\ reply' = Reply(IF Live(k) THEN 1 ELSE 0)
    /\ rl_last' = ResetReturned(k)
    /\ UNCHANGED <<threshold, window_seconds, redis_time, rl_pc, rl_key, denied>>

\* reset(k) when DEL raises: lines 86-87.
LimiterResetFails(k) ==
    /\ \E applied \in BOOLEAN :
        /\ counter' = IF applied THEN Deleted(k) ELSE counter
        /\ expires' = IF applied THEN [expires EXCEPT ![k] = NoExpiry] ELSE expires
        /\ obtained' = IF applied THEN [obtained EXCEPT ![k] = <<>>] ELSE obtained
        /\ window_start' = IF applied THEN [window_start EXCEPT ![k] = NoWindow]
                           ELSE window_start
    /\ reply' = Failed
    /\ rl_last' = ResetReturned(k)
    /\ UNCHANGED <<threshold, window_seconds, redis_time, rl_pc, rl_key, denied>>

RLInit ==
    /\ BreakerFresh(MaxThreshold, MaxResetTimeout)
    /\ \E R \in 1..MaxRate, W \in 1..MaxWindow : RLFresh(R, W)
    /\ CacheFresh(MaxTTL)
    /\ BootFresh
    /\ SummaryFresh
    /\ StatusFresh

\* Concurrent callers of allow_request() and reset(), with Redis available.
RLNext ==
    \/ RedisTick /\ UNCHANGED beside_limiter
    \/ \E t \in Tasks, k \in Keys : AllowRequestIncr(t, k) /\ UNCHANGED beside_limiter
    \/ \E t \in Tasks : AllowRequestExpire(t) /\ UNCHANGED beside_limiter
    \/ \E k \in Keys : LimiterReset(k) /\ UNCHANGED beside_limiter

SpecRL == RLInit /\ [][RLNext]_vars

\* Concurrent callers of allow_request() and get_retry_after(), with Redis
\* available and no reset().
RLUpNext ==
    \/ RedisTick /\ UNCHANGED beside_limiter
    \/ \E t \in Tasks, k \in Keys : AllowRequestIncr(t, k) /\ UNCHANGED beside_limiter
    \/ \E t \in Tasks : AllowRequestExpire(t) /\ UNCHANGED beside_limiter
    \/ \E k \in Keys : GetRetryAfter(k) /\ UNCHANGED beside_limiter

SpecRLUp == RLInit /\ [][RLUpNext]_vars

\* No allow_request() is between its two round trips.
RLQuiet == \A t \in Tasks : rl_pc[t] = "idle"

\* Requests made one at a time, as the tests make them, with Redis available
\* and no reset(): a call starts when no other is in flight, and the clock
\* moves between calls.
RLSeqNext ==
    \/ RLQuiet /\ RedisTick /\ UNCHANGED beside_limiter
    \/ \E t \in Tasks, k \in Keys :
            RLQuiet /\ AllowRequestIncr(t, k) /\ UNCHANGED beside_limiter
    \/ \E t \in Tasks : AllowRequestExpire(t) /\ UNCHANGED beside_limiter
    \/ \E k \in Keys : RLQuiet /\ GetRetryAfter(k) /\ UNCHANGED beside_limiter

SpecRLSeq == RLInit /\ [][RLSeqNext]_vars

\* allow_request() and reset() called one at a time, with Redis available.
RLResetNext ==
    \/ RLQuiet /\ RedisTick /\ UNCHANGED beside_limiter
    \/ \E t \in Tasks, k \in Keys :
            RLQuiet /\ AllowRequestIncr(t, k) /\ UNCHANGED beside_limiter
    \/ \E t \in Tasks : AllowRequestExpire(t) /\ UNCHANGED beside_limiter
    \/ \E k \in Keys : RLQuiet /\ LimiterReset(k) /\ UNCHANGED beside_limiter

SpecRLReset == RLInit /\ [][RLResetNext]_vars

\* A limiter with any threshold and the longest window: what a call returns
\* when its command fails does not depend on the window's length.
RLFailInit ==
    /\ BreakerFresh(MaxThreshold, MaxResetTimeout)
    /\ \E R \in 1..MaxRate : RLFresh(R, MaxWindow)
    /\ CacheFresh(MaxTTL)
    /\ BootFresh
    /\ SummaryFresh
    /\ StatusFresh

\* Requests made one at a time to a Redis whose commands may fail.
RLFailNext ==
    \/ RLQuiet /\ RedisTick /\ UNCHANGED beside_limiter
    \/ \E t \in Tasks, k \in Keys :
            RLQuiet /\ AllowRequestIncr(t, k) /\ UNCHANGED beside_limiter
    \/ \E t \in Tasks, k \in Keys :
            RLQuiet /\ AllowRequestIncrFails(t, k) /\ UNCHANGED beside_limiter
    \/ \E t \in Tasks : AllowRequestExpire(t) /\ UNCHANGED beside_limiter
    \/ \E t \in Tasks : AllowRequestExpireFails(t) /\ UNCHANGED beside_limiter
    \/ \E k \in Keys : RLQuiet /\ GetRetryAfter(k) /\ UNCHANGED beside_limiter
    \/ \E k \in Keys : RLQuiet /\ GetRetryAfterFails(k) /\ UNCHANGED beside_limiter
    \/ \E k \in Keys : RLQuiet /\ LimiterReset(k) /\ UNCHANGED beside_limiter
    \/ \E k \in Keys : RLQuiet /\ LimiterResetFails(k) /\ UNCHANGED beside_limiter

SpecRLFail == RLFailInit /\ [][RLFailNext]_vars

\* allow_request(), get_retry_after() and reset() called one at a time; an
\* EXPIRE or a TTL may fail.
RLRetryNext ==
    \/ RLQuiet /\ RedisTick /\ UNCHANGED beside_limiter
    \/ \E t \in Tasks, k \in Keys :
            RLQuiet /\ AllowRequestIncr(t, k) /\ UNCHANGED beside_limiter
    \/ \E t \in Tasks : AllowRequestExpire(t) /\ UNCHANGED beside_limiter
    \/ \E t \in Tasks : AllowRequestExpireFails(t) /\ UNCHANGED beside_limiter
    \/ \E k \in Keys : RLQuiet /\ GetRetryAfter(k) /\ UNCHANGED beside_limiter
    \/ \E k \in Keys : RLQuiet /\ GetRetryAfterFails(k) /\ UNCHANGED beside_limiter
    \/ \E k \in Keys : RLQuiet /\ LimiterReset(k) /\ UNCHANGED beside_limiter

SpecRLRetry == RLInit /\ [][RLRetryNext]_vars

\* Requests made one at a time to a Redis on which an EXPIRE may fail.
RLOrphanNext ==
    \/ RLQuiet /\ RedisTick /\ UNCHANGED beside_limiter
    \/ \E t \in Tasks, k \in Keys :
            RLQuiet /\ AllowRequestIncr(t, k) /\ UNCHANGED beside_limiter
    \/ \E t \in Tasks : AllowRequestExpire(t) /\ UNCHANGED beside_limiter
    \/ \E t \in Tasks : AllowRequestExpireFails(t) /\ UNCHANGED beside_limiter
    \/ \E k \in Keys : RLQuiet /\ LimiterReset(k) /\ UNCHANGED beside_limiter

SpecRLOrphan == RLInit /\ [][RLOrphanNext]_vars

(***************************************************************************)
(* CacheService.  get(), set() and delete() make one round trip to Redis;  *)
(* get_or_set() makes a GET, awaits the producer on a miss and then makes  *)
(* a SETEX; clear_pattern() makes a KEYS and, when keys matched, a DELETE. *)
(***************************************************************************)

\* One second passes: Redis removes the cache keys whose time has run out.
LastSecond(k) == entry[k] # Nil /\ entry_ttl[k] = 1

CacheTick ==
    /\ \E k \in CacheKeys : entry[k] # Nil \/ put[k].left > 0
    /\ entry' = [k \in CacheKeys |-> IF LastSecond(k) THEN Nil ELSE entry[k]]
    /\ entry_ttl' = [k \in CacheKeys |->
                        IF entry[k] = Nil \/ LastSecond(k) THEN NoExpiry
                        ELSE entry_ttl[k] - 1]
    /\ put' = [k \in CacheKeys |->
                    IF put[k].left > 0 THEN [put[k] EXCEPT !.left = @ - 1] ELSE put[k]]
    /\ UNCHANGED <<default_ttl_seconds, cache_call, cache_last>>

\* ttl_seconds or self.default_ttl_seconds (line 33): None and 0 are falsy.
OrDefault(ttl_seconds) ==
    IF ttl_seconds = Unset \/ ttl_seconds = 0 THEN default_ttl_seconds ELSE ttl_seconds

\* What get() returns for the reply to GET (lines 23-25).
GetValue(cached_data) == IF Truthy(cached_data) THEN Loads(cached_data) ELSE "None"

\* if cached_data: in place of line 69, which takes 0, False and [] for a miss.
IsHit_Truthy(cached_data) == cached_data \notin {"None", "0", "False", "[]"}

\* cached_data is not None (line 69).
IsHit(cached_data) == cached_data # "None"

\* SETEX key ttl text, applied by Redis.
StoredText(k, text) == [entry EXCEPT ![k] = text]
StoredTTL_Forever(k, ttl) == [entry_ttl EXCEPT ![k] = MaxTTL + 1]
StoredTTL(k, ttl) == [entry_ttl EXCEPT ![k] = ttl]

\* The history of a set(k, v, ttl_seconds): v and the TTL asked for, which is
\* default_ttl_seconds when none was given; a set() with a TTL of 0 asks for
\* no time at all and leaves no history.
PutBy(k, v, ttl_seconds) ==
    [put EXCEPT ![k] =
        IF ttl_seconds = 0 THEN NoPut
        ELSE [value |-> v,
              left |-> IF ttl_seconds = Unset THEN default_ttl_seconds ELSE ttl_seconds,
              live |-> TRUE]]

\* DEL keys, applied by Redis.
Removed(keys) == [k \in CacheKeys |-> IF k \in keys THEN Nil ELSE entry[k]]
RemovedTTL(keys) == [k \in CacheKeys |-> IF k \in keys THEN NoExpiry ELSE entry_ttl[k]]
Forgotten(keys) == [k \in CacheKeys |-> IF k \in keys THEN NoPut ELSE put[k]]

\* set(k, v, ttl_seconds): lines 33-36.
CacheSet(k, v, ttl_seconds) ==
    /\ entry' = StoredText(k, Dumps(v))
    /\ entry_ttl' = StoredTTL(k, OrDefault(ttl_seconds))
    /\ put' = PutBy(k, v, ttl_seconds)
    /\ cache_last' = [CacheReturned("set", "") EXCEPT !.ok = TRUE, !.wrote = TRUE]
    /\ UNCHANGED <<default_ttl_seconds, cache_call>>

\* set() when SETEX raises: lines 37-39.
CacheSetFails(k, v, ttl_seconds) ==
    /\ \E applied \in BOOLEAN :
        /\ entry' = IF applied THEN StoredText(k, Dumps(v)) ELSE entry
        /\ entry_ttl' = IF applied THEN StoredTTL(k, OrDefault(ttl_seconds)) ELSE entry_ttl
        /\ put' = IF applied THEN PutBy(k, v, ttl_seconds) ELSE put
    /\ cache_last' = [CacheReturned("set", "") EXCEPT
                        !.ok = FALSE, !.wrote = TRUE, !.failed = TRUE]
    /\ UNCHANGED <<default_ttl_seconds, cache_call>>

\* get(k): lines 22-25.
CacheGet(k) ==
    /\ cache_last' = [CacheReturned("get", k) EXCEPT !.value = GetValue(entry[k])]
    /\ UNCHANGED <<default_ttl_seconds, entry, entry_ttl, cache_call, put>>

\* get(k) when GET raises: lines 26-28.
CacheGetFails(k) ==
    /\ cache_last' = [CacheReturned("get", k) EXCEPT !.value = "None", !.failed = TRUE]
    /\ UNCHANGED <<default_ttl_seconds, entry, entry_ttl, cache_call, put>>

\* delete(k): lines 44-45.
CacheDelete(k) ==
    /\ entry' = Removed({k})
    /\ entry_ttl' = RemovedTTL({k})
    /\ put' = Forgotten({k})
    /\ cache_last' = [CacheReturned("delete", "") EXCEPT !.ok = TRUE, !.wrote = TRUE]
    /\ UNCHANGED <<default_ttl_seconds, cache_call>>

\* delete(k) when DELETE raises: lines 46-48.
CacheDeleteFails(k) ==
    /\ \E applied \in BOOLEAN :
        /\ entry' = IF applied THEN Removed({k}) ELSE entry
        /\ entry_ttl' = IF applied THEN RemovedTTL({k}) ELSE entry_ttl
        /\ put' = IF applied THEN Forgotten({k}) ELSE put
    /\ cache_last' = [CacheReturned("delete", "") EXCEPT
                        !.ok = FALSE, !.wrote = TRUE, !.failed = TRUE]
    /\ UNCHANGED <<default_ttl_seconds, cache_call>>

\* get_or_set(k, producer): lines 68-75, the GET and the branch on what get()
\* returned; on a miss the producer is invoked.
GetOrSetLookup(t, k) ==
    /\ cache_call[t].pc = "idle"
    /\ LET cached_data == GetValue(entry[k]) IN
        IF IsHit(cached_data)
        THEN /\ cache_last' = [CacheReturned("get_or_set", k) EXCEPT !.value = cached_data]
             /\ UNCHANGED cache_call
        ELSE /\ cache_call' = [cache_call EXCEPT
                                ![t] = [NoCall EXCEPT !.pc = "fetch", !.key = k,
                                                       !.invoked = 1]]
             /\ UNCHANGED cache_last
    /\ UNCHANGED <<default_ttl_seconds, entry, entry_ttl, put>>

\* get_or_set(k, producer) when GET raises: get() logs the error and returns
\* None (lines 26-28), a miss.
GetOrSetLookupFails(t, k) ==
    /\ cache_call[t].pc = "idle"
    /\ cache_call' = [cache_call EXCEPT
                        ![t] = [NoCall EXCEPT !.pc = "fetch", !.key = k, !.invoked = 1,
                                               !.failed = TRUE]]
    /\ UNCHANGED <<default_ttl_seconds, entry, entry_ttl, cache_last, put>>

\* The producer awaited at line 75 returns v.
GetOrSetFetched(t, v) ==
    /\ cache_call[t].pc = "fetch"
    /\ cache_call' = [cache_call EXCEPT ![t].pc = "store", ![t].data = v]
    /\ UNCHANGED <<default_ttl_seconds, entry, entry_ttl, cache_last, put>>

\* How a get_or_set(k, producer) ended whose GET was answered and whose
\* producer raised: the exception left get_or_set().
ProducerRaised(k) == [CacheReturned("raised", k) EXCEPT !.invoked = 1]

\* get_or_set() that catches the producer's exception and caches None.
GetOrSetFetchFails_CachesNone(t) ==
    /\ cache_call[t].pc = "fetch"
    /\ LET k == cache_call[t].key IN
        /\ entry' = StoredText(k, Dumps("None"))
        /\ entry_ttl' = StoredTTL(k, OrDefault(Unset))
        /\ put' = PutBy(k, "None", Unset)
        /\ cache_last' = [CacheReturned("get_or_set", k) EXCEPT
                            !.invoked = 1, !.wrote = TRUE,
                            !.failed = cache_call[t].failed]
    /\ cache_call' = [cache_call EXCEPT ![t] = NoCall]
    /\ UNCHANGED default_ttl_seconds

\* The producer awaited at line 75 raises: nothing in get_or_set() catches
\* the exception, so lines 78-80 do not run.
GetOrSetFetchFails(t) ==
    /\ cache_call[t].pc = "fetch"
    /\ cache_last' = [ProducerRaised(cache_call[t].key) EXCEPT
                        !.failed = cache_call[t].failed]
    /\ cache_call' = [cache_call EXCEPT ![t] = NoCall]
    /\ UNCHANGED <<default_ttl_seconds, entry, entry_ttl, put>>

\* get_or_set() that stores with SET NX: an existing entry is kept.
GetOrSetStore_FirstWins(t) ==
    /\ cache_call[t].pc = "store"
    /\ LET k == cache_call[t].key
           data == cache_call[t].data IN
        /\ entry' = IF entry[k] = Nil THEN StoredText(k, Dumps(data)) ELSE entry
        /\ entry_ttl' = IF entry[k] = Nil THEN StoredTTL(k, OrDefault(Unset)) ELSE entry_ttl
        /\ put' = IF entry[k] = Nil THEN PutBy(k, data, Unset) ELSE put
        /\ cache_last' = [CacheReturned("get_or_set", k) EXCEPT
                            !.value = data, !.invoked = cache_call[t].invoked,
                            !.wrote = TRUE, !.failed = cache_call[t].failed]
    /\ cache_call' = [cache_call EXCEPT ![t] = NoCall]
    /\ UNCHANGED default_ttl_seconds

\* get_or_set() without line 78: the data is returned and not stored.
GetOrSetStore_ReturnsOnly(t) ==
    /\ cache_call[t].pc = "store"
    /\ cache_last' = [CacheReturned("get_or_set", cache_call[t].key) EXCEPT
                        !.value = cache_call[t].data, !.invoked = cache_call[t].invoked,
                        !.failed = cache_call[t].failed]
    /\ cache_call' = [cache_call EXCEPT ![t] = NoCall]
    /\ UNCHANGED <<default_ttl_seconds, entry, entry_ttl, put>>

\* get_or_set(): lines 78-80, set(key, data, ttl_seconds) and the return.
GetOrSetStore(t) ==
    /\ cache_call[t].pc = "store"
    /\ LET k == cache_call[t].key
           data == cache_call[t].data IN
        /\ entry' = StoredText(k, Dumps(data))
        /\ entry_ttl' = StoredTTL(k, OrDefault(Unset))
        /\ put' = PutBy(k, data, Unset)
        /\ cache_last' = [CacheReturned("get_or_set", k) EXCEPT
                            !.value = data, !.invoked = cache_call[t].invoked,
                            !.wrote = TRUE, !.failed = cache_call[t].failed]
    /\ cache_call' = [cache_call EXCEPT ![t] = NoCall]
    /\ UNCHANGED default_ttl_seconds

\* get_or_set() when the SETEX of its set() raises: set() returns False and
\* get_or_set() returns the data all the same.
GetOrSetStoreFails(t) ==
    /\ cache_call[t].pc = "store"
    /\ LET k == cache_call[t].key
           data == cache_call[t].data IN
        /\ \E applied \in BOOLEAN :
            /\ entry' = IF applied THEN StoredText(k, Dumps(data)) ELSE entry
            /\ entry_ttl' = IF applied THEN StoredTTL(k, OrDefault(Unset)) ELSE entry_ttl
            /\ put' = IF applied THEN PutBy(k, data, Unset) ELSE put
        /\ cache_last' = [CacheReturned("get_or_set", k) EXCEPT
                            !.value = data, !.invoked = cache_call[t].invoked,
                            !.wrote = TRUE, !.failed = TRUE]
    /\ cache_call' = [cache_call EXCEPT ![t] = NoCall]
    /\ UNCHANGED default_ttl_seconds

\* KEYS *: every key that exists, whatever the pattern.
Matching_All(pattern) == {k \in CacheKeys : entry[k] # Nil}

\* KEYS pattern: the keys that exist and match.
Matching(pattern) == {k \in CacheKeys : entry[k] # Nil /\ Matches(pattern, k)}

\* clear_pattern(pattern): lines 85-88, KEYS and the branch on its reply.
ClearKeys(t, pattern) ==
    /\ cache_call[t].pc = "idle"
    /\ IF Matching(pattern) # {}
       THEN /\ cache_call' = [cache_call EXCEPT
                                ![t] = [NoCall EXCEPT !.pc = "delete", !.key = pattern,
                                                       !.keys = Matching(pattern)]]
            /\ UNCHANGED cache_last
       ELSE /\ cache_last' = [CacheReturned("clear_pattern", pattern) EXCEPT !.count = 0]
            /\ UNCHANGED cache_call
    /\ UNCHANGED <<default_ttl_seconds, entry, entry_ttl, put>>

\* clear_pattern() when KEYS raises: lines 89-91.
ClearKeysFails(t, pattern) ==
    /\ cache_call[t].pc = "idle"
    /\ cache_last' = [CacheReturned("clear_pattern", pattern) EXCEPT
                        !.count = 0, !.failed = TRUE]
    /\ UNCHANGED <<default_ttl_seconds, entry, entry_ttl, cache_call, put>>

\* clear_pattern(): line 87, one DELETE of all the keys KEYS returned; the
\* reply is the number of keys that were removed.
ClearDelete(t) ==
    /\ cache_call[t].pc = "delete"
    /\ LET keys == cache_call[t].keys IN
        /\ entry' = Removed(keys)
        /\ entry_ttl' = RemovedTTL(keys)
        /\ put' = Forgotten(keys)
        /\ cache_last' = [CacheReturned("clear_pattern", cache_call[t].key) EXCEPT
                            !.count = Cardinality({k \in keys : entry[k] # Nil}),
                            !.wrote = TRUE]
    /\ cache_call' = [cache_call EXCEPT ![t] = NoCall]
    /\ UNCHANGED default_ttl_seconds

\* clear_pattern() without lines 89-91: the failure of DELETE reaches the caller.
ClearDeleteFails_Raises(t) ==
    /\ cache_call[t].pc = "delete"
    /\ cache_last' = [CacheReturned("raised", cache_call[t].key) EXCEPT
                        !.wrote = TRUE, !.failed = TRUE]
    /\ cache_call' = [cache_call EXCEPT ![t] = NoCall]
    /\ UNCHANGED <<default_ttl_seconds, entry, entry_ttl, put>>

\* clear_pattern() when DELETE raises: lines 89-91.
ClearDeleteFails(t) ==
    /\ cache_call[t].pc = "delete"
    /\ LET keys == cache_call[t].keys IN
        /\ \E applied \in BOOLEAN :
            /\ entry' = IF applied THEN Removed(keys) ELSE entry
            /\ entry_ttl' = IF applied THEN RemovedTTL(keys) ELSE entry_ttl
            /\ put' = IF applied THEN Forgotten(keys) ELSE put
        /\ cache_last' = [CacheReturned("clear_pattern", cache_call[t].key) EXCEPT
                            !.count = 0, !.wrote = TRUE, !.failed = TRUE]
    /\ cache_call' = [cache_call EXCEPT ![t] = NoCall]
    /\ UNCHANGED default_ttl_seconds

CacheInit ==
    /\ BreakerFresh(MaxThreshold, MaxResetTimeout)
    /\ RLFresh(MaxRate, MaxWindow)
    /\ \E D \in 1..MaxTTL : CacheFresh(D)
    /\ BootFresh
    /\ SummaryFresh
    /\ StatusFresh

\* No get_or_set() or clear_pattern() is in progress.
CacheQuiet == \A t \in Tasks : cache_call[t].pc = "idle"

\* set(), get() and get_or_set() called one at a time, with Redis available.
CacheNext ==
    \/ CacheQuiet /\ CacheTick /\ UNCHANGED beside_cache
    \/ \E k \in HotKeys, v \in Values, ttl \in TTLArgs :
            CacheQuiet /\ CacheSet(k, v, ttl) /\ UNCHANGED beside_cache
    \/ \E k \in HotKeys : CacheQuiet /\ CacheGet(k) /\ UNCHANGED beside_cache
    \/ \E t \in Tasks, k \in HotKeys :
            CacheQuiet /\ GetOrSetLookup(t, k) /\ UNCHANGED beside_cache
    \/ \E t \in Tasks, v \in Values : GetOrSetFetched(t, v) /\ UNCHANGED beside_cache
    \/ \E t \in Tasks : GetOrSetStore(t) /\ UNCHANGED beside_cache

SpecCache == CacheInit /\ [][CacheNext]_vars

\* set() without a TTL, delete() and clear_pattern() called one at a time,
\* with Redis available.
CacheClearNext ==
    \/ CacheQuiet /\ CacheTick /\ UNCHANGED beside_cache
    \/ \E k \in CacheKeys, v \in ClearedValues :
            CacheQuiet /\ CacheSet(k, v, Unset) /\ UNCHANGED beside_cache
    \/ \E k \in CacheKeys : CacheQuiet /\ CacheDelete(k) /\ UNCHANGED beside_cache
    \/ \E t \in Tasks, p \in Patterns :
            CacheQuiet /\ ClearKeys(t, p) /\ UNCHANGED beside_cache
    \/ \E t \in Tasks : ClearDelete(t) /\ UNCHANGED beside_cache

SpecCacheClear == CacheInit /\ [][CacheClearNext]_vars

\* Concurrent callers of get_or_set(), and delete(), with Redis available.
CacheRaceInit ==
    /\ BreakerFresh(MaxThreshold, MaxResetTimeout)
    /\ RLFresh(MaxRate, MaxWindow)
    /\ CacheFresh(MaxTTL)
    /\ BootFresh
    /\ SummaryFresh
    /\ StatusFresh

CacheRaceNext ==
    \/ \E t \in Tasks, k \in HotKeys : GetOrSetLookup(t, k) /\ UNCHANGED beside_cache
    \/ \E t \in Tasks, v \in Values : GetOrSetFetched(t, v) /\ UNCHANGED beside_cache
    \/ \E t \in Tasks : GetOrSetFetchFails(t) /\ UNCHANGED beside_cache
    \/ \E t \in Tasks : GetOrSetStore(t) /\ UNCHANGED beside_cache
    \/ \E k \in HotKeys : CacheDelete(k) /\ UNCHANGED beside_cache

SpecCacheRace == CacheRaceInit /\ [][CacheRaceNext]_vars

\* Calls made one at a time to a Redis whose commands may fail.
CacheFailNext ==
    \/ \E k \in HotKeys, v \in Values :
            CacheQuiet /\ CacheSet(k, v, Unset) /\ UNCHANGED beside_cache
    \/ \E k \in HotKeys, v \in Values :
            CacheQuiet /\ CacheSetFails(k, v, Unset) /\ UNCHANGED beside_cache
    \/ \E k \in HotKeys : CacheQuiet /\ CacheGet(k) /\ UNCHANGED beside_cache
    \/ \E k \in HotKeys : CacheQuiet /\ CacheGetFails(k) /\ UNCHANGED beside_cache
    \/ \E k \in HotKeys : CacheQuiet /\ CacheDelete(k) /\ UNCHANGED beside_cache
    \/ \E k \in HotKeys : CacheQuiet /\ CacheDeleteFails(k) /\ UNCHANGED beside_cache
    \/ \E t \in Tasks, k \in HotKeys :
            CacheQuiet /\ GetOrSetLookup(t, k) /\ UNCHANGED beside_cache
    \/ \E t \in Tasks, k \in HotKeys :
            CacheQuiet /\ GetOrSetLookupFails(t, k) /\ UNCHANGED beside_cache
    \/ \E t \in Tasks, v \in Values : GetOrSetFetched(t, v) /\ UNCHANGED beside_cache
    \/ \E t \in Tasks : GetOrSetFetchFails(t) /\ UNCHANGED beside_cache
    \/ \E t \in Tasks : GetOrSetStore(t) /\ UNCHANGED beside_cache
    \/ \E t \in Tasks : GetOrSetStoreFails(t) /\ UNCHANGED beside_cache
    \/ \E t \in Tasks, p \in Patterns :
            CacheQuiet /\ ClearKeys(t, p) /\ UNCHANGED beside_cache
    \/ \E t \in Tasks, p \in Patterns :
            CacheQuiet /\ ClearKeysFails(t, p) /\ UNCHANGED beside_cache
    \/ \E t \in Tasks : ClearDelete(t) /\ UNCHANGED beside_cache
    \/ \E t \in Tasks : ClearDeleteFails(t) /\ UNCHANGED beside_cache

SpecCacheFail == CacheInit /\ [][CacheFailNext]_vars

\* ------------------------------------------------- construction and startup

\* CircuitBreaker(...), RateLimiter(...), CacheService(...) given n for one
\* parameter: __init__ assigns the fields and checks nothing.
Construct(p, n) ==
    /\ built' = Built(p[1], p[2], n, FALSE)
    /\ UNCHANGED <<instance, connections, services, constructed, boot_pc, boot_got,
                   closed>>

\* Settings.validate() with one setting equal to n: settings.py lines 44-55.
SettingsValidate(name, n) ==
    /\ built' = Built("Settings", name, n, name \in Validated /\ n <= 0)
    /\ UNCHANGED <<instance, connections, services, constructed, boot_pc, boot_got,
                   closed>>

\* initialize() when the check of line 58 and the assignment of lines 60-65
\* are separated by a suspension.
InitializeStart_Suspends(t) ==
    /\ \/ /\ boot_pc[t] = "idle" /\ instance = Missing
          /\ connections < MaxConnections
          /\ boot_pc' = [boot_pc EXCEPT ![t] = "connect"]
          /\ UNCHANGED <<instance, connections, boot_got>>
       \/ /\ boot_pc[t] = "idle" /\ instance # Missing
          /\ boot_got' = [boot_got EXCEPT ![t] = Got("initialize", instance)]
          /\ UNCHANGED <<instance, connections, boot_pc>>
       \/ /\ boot_pc[t] = "connect"
          /\ instance' = connections + 1
          /\ connections' = connections + 1
          /\ boot_pc' = [boot_pc EXCEPT ![t] = "ping"]
          /\ UNCHANGED boot_got
    /\ UNCHANGED <<services, constructed, built, closed>>

\* RedisClient.initialize(): lines 58-66 up to the await of ping(), or line
\* 71 when there is an instance. redis.from_url() returns the client without
\* a round trip, so check and assignment are one step.
InitializeStart(t) ==
    /\ boot_pc[t] = "idle"
    /\ instance = Missing => connections < MaxConnections
    /\ IF instance = Missing
       THEN /\ instance' = connections + 1
            /\ connections' = connections + 1
            /\ boot_pc' = [boot_pc EXCEPT ![t] = "ping"]
            /\ UNCHANGED boot_got
       ELSE /\ boot_got' = [boot_got EXCEPT ![t] = Got("initialize", instance)]
            /\ UNCHANGED <<instance, connections, boot_pc>>
    /\ UNCHANGED <<services, constructed, built, closed>>

\* initialize(): ping() answered, lines 67 and 71.
InitializePinged(t) ==
    /\ boot_pc[t] = "ping"
    /\ boot_got' = [boot_got EXCEPT ![t] = Got("initialize", instance)]
    /\ boot_pc' = [boot_pc EXCEPT ![t] = "idle"]
    /\ UNCHANGED <<instance, connections, services, constructed, built, closed>>

\* initialize(): ping() raised, lines 68-70; _instance stays assigned.
InitializePingFails(t) ==
    /\ boot_pc[t] = "ping"
    /\ boot_got' = [boot_got EXCEPT ![t] = Raised("initialize")]
    /\ boot_pc' = [boot_pc EXCEPT ![t] = "idle"]
    /\ UNCHANGED <<instance, connections, services, constructed, built, closed>>

\* The three globals after lines 40-42 ran once more.
Assigned == constructed + 1

\* CircuitBreaker() at routes.py line 42: the fields __init__ sets
\* (circuit_breaker.py lines 57-65) when it runs at time t.
BreakerNew(t) ==
    [state |-> CLOSED,
     failure_count |-> 0,
     success_count |-> 0,
     last_failure_time |-> 0,
     last_state_change |-> t]

\* The global circuit_breaker becomes a new object with the thresholds of
\* the settings and a lock of its own.
BreakerAssigned ==
    /\ SetBreaker(BreakerNew(now))
    /\ locked' = FALSE
    /\ waiters' = <<>>
    /\ UNCHANGED <<config, now, pc, outcome>>

\* get_services(): routes.py lines 38-44. With the globals set it returns
\* them; otherwise RedisClient.get() returns the instance at once when there
\* is one, and the three are constructed, or runs initialize() up to the
\* await of ping().
GetServicesStart(t) ==
    /\ boot_pc[t] = "idle"
    /\ (services = Missing /\ instance = Missing) => connections < MaxConnections
    /\ IF services # Missing
       THEN /\ boot_got' = [boot_got EXCEPT ![t] = Got("get_services", services)]
            /\ UNCHANGED <<instance, connections, services, constructed, boot_pc>>
            /\ UNCHANGED breaker_vars
       ELSE IF instance # Missing
       THEN /\ services' = Assigned
            /\ constructed' = constructed + 1
            /\ BreakerAssigned
            /\ boot_got' = [boot_got EXCEPT ![t] = Got("get_services", Assigned)]
            /\ UNCHANGED <<instance, connections, boot_pc>>
       ELSE /\ instance' = connections + 1
            /\ connections' = connections + 1
            /\ boot_pc' = [boot_pc EXCEPT ![t] = "services_ping"]
            /\ UNCHANGED <<services, constructed, boot_got>>
            /\ UNCHANGED breaker_vars
    /\ UNCHANGED <<built, closed>>

\* get_services(): ping() answered inside RedisClient.get(); lines 40-44
\* construct the three, assign the globals and return them.
GetServicesPinged(t) ==
    /\ boot_pc[t] = "services_ping"
    /\ services' = Assigned
    /\ constructed' = constructed + 1
    /\ BreakerAssigned
    /\ boot_got' = [boot_got EXCEPT ![t] = Got("get_services", Assigned)]
    /\ boot_pc' = [boot_pc EXCEPT ![t] = "idle"]
    /\ UNCHANGED <<instance, connections, built, closed>>

\* get_services(): ping() raised inside RedisClient.get(); the exception
\* leaves get_services() and the globals stay None.
GetServicesPingFails(t) ==
    /\ boot_pc[t] = "services_ping"
    /\ boot_got' = [boot_got EXCEPT ![t] = Raised("get_services")]
    /\ boot_pc' = [boot_pc EXCEPT ![t] = "idle"]
    /\ UNCHANGED <<instance, connections, services, constructed, built, closed>>

\* RedisClient.close() up to its suspension: with an instance (line 83) it
\* awaits the client's close() (line 84), _instance still assigned; without
\* one it returns at once.
CloseStart(t) ==
    /\ boot_pc[t] = "idle"
    /\ IF instance = Missing
       THEN /\ boot_got' = [boot_got EXCEPT ![t] = Got("close", Missing)]
            /\ UNCHANGED <<boot_pc, closed>>
       ELSE /\ boot_pc' = [boot_pc EXCEPT ![t] = "close"]
            /\ closed' = TRUE
            /\ UNCHANGED boot_got
    /\ UNCHANGED <<instance, connections, services, constructed, built>>

\* close(): the client's close() returned; lines 85-86 set _instance to None,
\* whatever it is by now.
CloseDone(t) ==
    /\ boot_pc[t] = "close"
    /\ instance' = Missing
    /\ boot_got' = [boot_got EXCEPT ![t] = Got("close", Missing)]
    /\ boot_pc' = [boot_pc EXCEPT ![t] = "idle"]
    /\ UNCHANGED <<connections, services, constructed, built, closed>>

BootInit ==
    /\ BreakerFresh(MaxThreshold, MaxResetTimeout)
    /\ RLFresh(MaxRate, MaxWindow)
    /\ CacheFresh(MaxTTL)
    /\ BootFresh
    /\ SummaryFresh
    /\ StatusFresh

\* Constructor calls, Settings.validate(), and concurrent callers of
\* RedisClient.initialize() and get_services().
BootNext ==
    \/ \E p \in Params, n \in Args : Construct(p, n) /\ UNCHANGED beside_boot
    \/ \E name \in SettingNames, n \in Args :
            SettingsValidate(name, n) /\ UNCHANGED beside_boot
    \/ \E t \in Tasks : InitializeStart(t) /\ UNCHANGED beside_boot
    \/ \E t \in Tasks : InitializePinged(t) /\ UNCHANGED beside_boot
    \/ \E t \in Tasks : InitializePingFails(t) /\ UNCHANGED beside_boot
    \/ \E t \in Tasks : GetServicesStart(t) /\ UNCHANGED beside_services
    \/ \E t \in Tasks : GetServicesPinged(t) /\ UNCHANGED beside_services
    \/ \E t \in Tasks : GetServicesPingFails(t) /\ UNCHANGED beside_boot

SpecBoot == BootInit /\ [][BootNext]_vars

\* The connection from startup to shutdown: concurrent callers of
\* RedisClient.initialize(), get_services() and RedisClient.close().
ConnNext ==
    \/ \E t \in Tasks : InitializeStart(t) /\ UNCHANGED beside_boot
    \/ \E t \in Tasks : InitializePinged(t) /\ UNCHANGED beside_boot
    \/ \E t \in Tasks : InitializePingFails(t) /\ UNCHANGED beside_boot
    \/ \E t \in Tasks : GetServicesStart(t) /\ UNCHANGED beside_services
    \/ \E t \in Tasks : GetServicesPinged(t) /\ UNCHANGED beside_services
    \/ \E t \in Tasks : GetServicesPingFails(t) /\ UNCHANGED beside_boot
    \/ \E t \in Tasks : CloseStart(t) /\ UNCHANGED beside_boot
    \/ \E t \in Tasks : CloseDone(t) /\ UNCHANGED beside_boot

SpecConn == BootInit /\ [][ConnNext]_vars

\* --------------------------------------------------- get_metrics_summary()

\* if cached_data: at routes.py line 134, for what cache_service.get() returned.
SummaryHit(cached_data) == cached_data \notin {"None", "0", "False", "[]"}

\* The stage a request is at when circuit_breaker.call() has ended with an
\* error the handler does not catch.
AfterCall_ErrorAborts(gave) == IF gave = Result THEN "set" ELSE "idle"

\* The stage a request is at when circuit_breaker.call() has ended: the
\* handler catches CircuitBreakerOpenError and every other Exception (lines
\* 145-151) and goes on to cache_service.set().
AfterCall(gave) == "set"

\* MetricSummary(**cached_data) at line 136 returns a summary for the mapping
\* the handler stored and raises for anything else, a TypeError for a value
\* that is not a mapping.
SummaryParses(cached_data) == cached_data = Summary

\* The request once get_services() has returned: an invalid period ends it
\* with HTTPException 400 (lines 121-127); otherwise cache_service.get() is
\* awaited (lines 130-133).
SummaryProceeds(t, k) ==
    IF k = InvalidPeriod
    THEN /\ summary_last' = SummaryReturned(k, "invalid", FALSE, "none", FALSE)
         /\ summary_pc' = [summary_pc EXCEPT ![t] = "idle"]
         /\ summary_key' = [summary_key EXCEPT ![t] = ""]
    ELSE /\ summary_pc' = [summary_pc EXCEPT ![t] = "get"]
         /\ summary_key' = [summary_key EXCEPT ![t] = k]
         /\ UNCHANGED summary_last

\* A request from its start (line 119): get_services() returns the globals,
\* or constructs them on an instance that exists, and the request goes on;
\* or RedisClient.get() opens the connection and the request is suspended at
\* ping().
SummaryStart(t, k) ==
    /\ summary_pc[t] = "idle"
    /\ GetServicesStart(t)
    /\ IF boot_pc'[t] = "services_ping"
       THEN /\ summary_pc' = [summary_pc EXCEPT ![t] = "services"]
            /\ summary_key' = [summary_key EXCEPT ![t] = k]
            /\ UNCHANGED summary_last
       ELSE SummaryProceeds(t, k)
    /\ UNCHANGED cache_vars

\* ping() answered inside get_services(): the services are constructed and
\* the request goes on.
SummaryServices(t) ==
    /\ summary_pc[t] = "services"
    /\ GetServicesPinged(t)
    /\ SummaryProceeds(t, summary_key[t])
    /\ UNCHANGED cache_vars

\* ping() raised inside get_services(): line 119 is outside every try, and
\* the ConnectionError ends the request.
SummaryServicesFail(t) ==
    /\ summary_pc[t] = "services"
    /\ GetServicesPingFails(t)
    /\ summary_last' = SummaryReturned(summary_key[t], "error", FALSE, "none", FALSE)
    /\ summary_pc' = [summary_pc EXCEPT ![t] = "idle"]
    /\ summary_key' = [summary_key EXCEPT ![t] = ""]
    /\ UNCHANGED <<breaker_vars, cache_vars>>

\* A request from the reply to GET to its next suspension: a truthy cached
\* value that makes a MetricSummary is returned (lines 134-136); on a miss,
\* and when MetricSummary() raises (lines 137-138), the request computes the
\* summary and enters circuit_breaker.call() (lines 142-146), which rejects
\* at once when the breaker is OPEN.
SummaryLookup(t, k) ==
    /\ summary_pc[t] = "get"
    /\ summary_key[t] = k
    /\ CacheGet(k)
    /\ IF SummaryHit(GetValue(entry[k])) /\ SummaryParses(GetValue(entry[k]))
       THEN /\ summary_last' = SummaryReturned(k, "cache", FALSE, "none", FALSE)
            /\ summary_pc' = [summary_pc EXCEPT ![t] = "idle"]
            /\ summary_key' = [summary_key EXCEPT ![t] = ""]
            /\ UNCHANGED breaker_vars
       ELSE /\ CallEnter(t)
            /\ summary_pc' = [summary_pc EXCEPT
                                ![t] = IF pc'[t] = "idle" THEN AfterCall(outcome'.gave)
                                       ELSE "call"]
            /\ UNCHANGED <<summary_key, summary_last>>
    /\ UNCHANGED boot_vars

\* The same when GET raises: cache_service.get() returns None, a miss.
SummaryLookupFails(t, k) ==
    /\ summary_pc[t] = "get"
    /\ summary_key[t] = k
    /\ CacheGetFails(k)
    /\ CallEnter(t)
    /\ summary_pc' = [summary_pc EXCEPT
                        ![t] = IF pc'[t] = "idle" THEN AfterCall(outcome'.gave) ELSE "call"]
    /\ UNCHANGED <<summary_key, summary_last, boot_vars>>

\* fetch_external_data() returns or raises inside circuit_breaker.call(), and
\* the call returns or raises in turn (lines 146-151).
SummaryCallEnds(t) ==
    /\ summary_pc[t] = "call"
    /\ \/ ProbeSuccess(t)
       \/ ProbeFailure(t)
       \/ ClosedSuccess(t)
       \/ ClosedFailure(t)
    /\ pc'[t] = "idle"
    /\ summary_pc' = [summary_pc EXCEPT ![t] = AfterCall(outcome'.gave)]
    /\ UNCHANGED <<cache_vars, summary_key, summary_last, boot_vars>>

\* cache_service.set(cache_key, summary.dict()) and the return of the
\* summary (lines 154-159).
SummaryStore(t) ==
    /\ summary_pc[t] = "set"
    /\ CacheSet(summary_key[t], Summary, Unset)
    /\ summary_last' = SummaryReturned(summary_key[t], "computed", TRUE, outcome.gave, TRUE)
    /\ summary_pc' = [summary_pc EXCEPT ![t] = "idle"]
    /\ summary_key' = [summary_key EXCEPT ![t] = ""]
    /\ UNCHANGED <<breaker_vars, boot_vars>>

\* The same when SETEX raises: set() returns False and the summary is returned.
SummaryStoreFails(t) ==
    /\ summary_pc[t] = "set"
    /\ CacheSetFails(summary_key[t], Summary, Unset)
    /\ summary_last' = SummaryReturned(summary_key[t], "computed", TRUE, outcome.gave, TRUE)
    /\ summary_pc' = [summary_pc EXCEPT ![t] = "idle"]
    /\ summary_key' = [summary_key EXCEPT ![t] = ""]
    /\ UNCHANGED <<breaker_vars, boot_vars>>

\* A process that has served no request: no connection, no services, and a
\* Redis that holds nothing or a value the handler did not store.
SummaryInit ==
    /\ BreakerFresh(MaxThreshold, MaxResetTimeout)
    /\ RLFresh(MaxRate, MaxWindow)
    /\ \E found \in {Nil} \cup {Dumps(v) : v \in ForeignValues} :
            CacheFound(MaxTTL, ForeignKey, found)
    /\ BootFresh
    /\ SummaryFresh
    /\ StatusFresh

\* No request is in progress.
SummaryQuiet == \A t \in Tasks : summary_pc[t] = "idle"

\* Requests to the summary endpoint made one at a time, the first of them in
\* a process without services, while time passes for the breaker and for the
\* cache.
\* Requests are made one at a time: the task that serves them.
SummaryTasks == {NumTasks}

SummaryNext ==
    \/ Tick /\ UNCHANGED beside_breaker
    \/ SummaryQuiet /\ CacheTick /\ UNCHANGED beside_cache
    \/ \E t \in SummaryTasks, k \in SummaryRequests :
            SummaryQuiet /\ SummaryStart(t, k) /\ UNCHANGED beside_summary
    \/ \E t \in SummaryTasks : SummaryServices(t) /\ UNCHANGED beside_summary
    \/ \E t \in SummaryTasks : SummaryServicesFail(t) /\ UNCHANGED beside_summary
    \/ \E t \in SummaryTasks, k \in SummaryKeys :
            SummaryLookup(t, k) /\ UNCHANGED beside_summary
    \/ \E t \in SummaryTasks, k \in SummaryKeys :
            SummaryLookupFails(t, k) /\ UNCHANGED beside_summary
    \/ \E t \in SummaryTasks : SummaryCallEnds(t) /\ UNCHANGED beside_summary
    \/ \E t \in SummaryTasks : SummaryStore(t) /\ UNCHANGED beside_summary
    \/ \E t \in SummaryTasks : SummaryStoreFails(t) /\ UNCHANGED beside_summary

SpecSummary == SummaryInit /\ [][SummaryNext]_vars

\* ------------------------------------------------------- RateLimiter claims

\* The task's allow_request(k) returns in this step, after INCR.
AllowReturnsAfterIncr(t, k) == AllowRequestIncr(t, k) /\ rl_pc'[t] = "idle"

\* The task's allow_request(k) returns in this step, after EXPIRE.
AllowReturnsAfterExpire(t, k) == AllowRequestExpire(t) /\ rl_key[t] = k

\* C14: with Redis available and no reset(), the n-th allow_request(k) of a
\* window returns true if and only if n <= threshold, whatever the interleaving
\* of the callers.  The caller whose INCR was the n-th on the key's counter is
\* the n-th of the window; the caller that goes on to EXPIRE is the first.
C14_AllowsUpToThreshold ==
    [][\A t \in Tasks, k \in Keys :
          /\ AllowReturnsAfterIncr(t, k) =>
                rl_last' = AllowReturned(k, Len(obtained'[k]) <= threshold)
          /\ AllowReturnsAfterExpire(t, k) =>
                rl_last' = AllowReturned(k, 1 <= threshold)]_vars

C14_Witness ==
    \E k \in Keys :
        /\ threshold > 1
        /\ rl_last = AllowReturned(k, FALSE)
        /\ Len(obtained[k]) = threshold + 1
        /\ \E t \in Tasks : rl_pc[t] = "expire" /\ rl_key[t] # k

\* The window of W seconds that the first request for k opened has elapsed.
WindowElapsed(k) ==
    window_start[k] # NoWindow /\ redis_time >= window_start[k] + window_seconds

\* C15: once the window of window_seconds that began at a key's first request
\* has elapsed, the key's counter has expired; an allow_request() for a key
\* without a counter obtains count 1, which opens a window at that time, and
\* returns true, also for a key that had been denied.  Requests are made one
\* at a time, each within one second of the clock.
C15_NewWindowAfterExpiry ==
    /\ [](\A k \in Keys : RLQuiet => ~WindowElapsed(k))
    /\ [][\A t \in Tasks, k \in Keys :
            /\ (AllowRequestIncr(t, k) /\ ~Live(k)) =>
                    /\ counter'[k] = 1
                    /\ window_start'[k] = redis_time
                    /\ rl_pc'[t] = "expire"
            /\ AllowReturnsAfterExpire(t, k) =>
                    /\ rl_last' = AllowReturned(k, TRUE)
                    /\ expires'[k] = window_start[k] + window_seconds]_vars

C15_Witness ==
    \E k \in Keys :
        /\ denied[k]
        /\ rl_last = AllowReturned(k, TRUE)
        /\ counter[k] = 1
        /\ window_start[k] > 0
        /\ expires[k] = window_start[k] + window_seconds

\* C16: a RateLimiter call in which a Redis command failed returned normally:
\* allow_request() returned true, get_retry_after() returned window_seconds,
\* reset() returned None.
C16_FailOpen ==
    ~reply.ok =>
        \E k \in Keys :
            \/ rl_last = AllowReturned(k, TRUE)
            \/ rl_last = RetryAfterReturned(k, window_seconds)
            \/ rl_last = ResetReturned(k)

C16_Witness ==
    \E k \in Keys :
        /\ ~reply.ok
        /\ rl_last = AllowReturned(k, TRUE)
        /\ counter[k] > threshold
        /\ expires[k] # NoExpiry

\* C17: the counts that the allow_request() calls on one key obtain from INCR
\* within one window are 1, 2, ..., n in the order of the increments, with no
\* gap and no duplicate, whatever the interleaving of the callers.
C17_GapFreeCounts ==
    \A k \in Keys :
        /\ Len(obtained[k]) = counter[k]
        /\ \A i \in 1..Len(obtained[k]) : obtained[k][i] = i

C17_Witness ==
    \E k \in Keys, t \in Tasks :
        /\ rl_pc[t] = "expire"
        /\ rl_key[t] = k
        /\ obtained[k] = <<1, 2, 3>>

\* C18: a key's TTL is set once per window, by the request that created the
\* counter: an EXPIRE that reaches a live counter finds it without a TTL,
\* under any interleaving of allow_request() and reset() calls.
C18_TTLSetOnce ==
    [][\A t \in Tasks, k \in Keys :
            (AllowReturnsAfterExpire(t, k) /\ Live(k)) => expires[k] = NoExpiry]_vars

\* C19: with Redis available, every allow_request(k) adds exactly one to the
\* counter of k and changes no other counter, whether it is allowed or denied;
\* nothing it does after the increment changes a counter.
C19_CountsEveryRequest ==
    [][\A t \in Tasks, k \in Keys :
            /\ AllowRequestIncr(t, k) =>
                    counter' = [counter EXCEPT ![k] = counter[k] + 1]
            /\ AllowReturnsAfterExpire(t, k) => counter' = counter]_vars

C19_Witness ==
    \E k \in Keys :
        /\ rl_last = AllowReturned(k, FALSE)
        /\ reply = Reply(counter[k])
        /\ counter[k] >= threshold + 2

\* C20: get_retry_after() returns at least 1: the TTL Redis reported when that
\* is at least 1, and 1 when Redis reported 0, -1 (no expiry) or -2 (no key).
C20_RetryAfterFloor ==
    rl_last.op = "retry_after" =>
        /\ rl_last.seconds >= 1
        /\ reply.ok =>
              rl_last.seconds = IF reply.value >= 1 THEN reply.value ELSE 1

C20_Witness ==
    \E k \in Keys :
        /\ rl_last = RetryAfterReturned(k, 1)
        /\ reply = Reply(0)
        /\ Live(k)

\* C21: reset(k) deletes the counter of k and leaves every other key as it
\* was; the allow_request(k) that follows obtains count 1, returns true and
\* attaches a TTL of window_seconds from that moment, whatever the count was
\* before the reset.  Requests are made one at a time.
C21_ResetStartsNewWindow ==
    /\ [](\A k \in Keys : (rl_last = ResetReturned(k) /\ reply.ok /\ RLQuiet) => ~Live(k))
    /\ [][\A t \in Tasks, k \in Keys :
            /\ LimiterReset(k) =>
                    \A j \in Keys \ {k} :
                        counter'[j] = counter[j] /\ expires'[j] = expires[j]
            /\ (AllowRequestIncr(t, k) /\ rl_last = ResetReturned(k) /\ reply.ok) =>
                    counter'[k] = 1 /\ rl_pc'[t] = "expire"
            /\ (AllowReturnsAfterExpire(t, k) /\ rl_last = ResetReturned(k)) =>
                    /\ rl_last' = AllowReturned(k, TRUE)
                    /\ counter'[k] = 1
                    /\ expires'[k] = redis_time + window_seconds]_vars

C21_Witness ==
    \E k \in Keys, j \in Keys :
        /\ j # k
        /\ denied[k]
        /\ redis_time = 0
        /\ rl_last = AllowReturned(k, TRUE)
        /\ counter[k] = 1
        /\ expires[k] = window_seconds
        /\ counter[j] > 1

\* ------------------------------------------------------ CacheService claims

\* json.loads(json.dumps(v)) == v: JSON has a representation of v of its own.
Faithful(v) == Loads(Dumps(v)) = v

\* C22 as stated: after set(k, v, t) with t > 0, get(k) returns v, whatever
\* value v is, while t has not elapsed, and None once t has elapsed.
C22_GetReturnsWhatWasSet_Original ==
    [][\A k \in HotKeys :
            (CacheGet(k) /\ put[k].live) =>
                cache_last'.value = (IF put[k].left > 0 THEN put[k].value ELSE "None")]_vars

\* C22, amended: after set(k, v, t) with t > 0, get(k) returns v while t has
\* not elapsed if JSON represents v faithfully, and in any case a value equal
\* to json.loads(json.dumps(v)); once t has elapsed get(k) returns None and
\* the key is gone from Redis, so no entry outlives its TTL.
C22_GetReturnsWhatWasSet ==
    /\ [](\A k \in HotKeys : (put[k].live /\ put[k].left = 0) => entry[k] = Nil)
    /\ [][\A k \in HotKeys :
            (CacheGet(k) /\ put[k].live) =>
                /\ put[k].left > 0 => cache_last'.value = Loads(Dumps(put[k].value))
                /\ (put[k].left > 0 /\ Faithful(put[k].value)) =>
                        cache_last'.value = put[k].value
                /\ put[k].left = 0 => cache_last'.value = "None"]_vars

\* A get() returned the list that set() stored with a TTL of 2, a second
\* before the TTL runs out, while the other key's entry has expired.
C22_Witness ==
    \E k \in HotKeys, j \in HotKeys :
        /\ j # k
        /\ cache_last = [CacheReturned("get", k) EXCEPT !.value = "[1]"]
        /\ put[k] = [value |-> "[1]", left |-> 1, live |-> TRUE]
        /\ entry_ttl[k] = 1
        /\ put[j].live /\ put[j].left = 0 /\ entry[j] = Nil

\* get_or_set(k, producer) returns at its first step with the value cached
\* for k: the producer was not invoked and nothing was written.
HitReturned(t, k) ==
    /\ cache_last' = [CacheReturned("get_or_set", k) EXCEPT !.value = Loads(entry[k])]
    /\ cache_call'[t].pc = "idle"
    /\ entry' = entry /\ entry_ttl' = entry_ttl

\* C23 as stated: get_or_set on a key that holds a live cached value,
\* whatever the value is, returns that value, does not invoke the producer
\* and writes nothing.
C23_HitSkipsProducer_Original ==
    [][\A t \in Tasks, k \in HotKeys :
            (GetOrSetLookup(t, k) /\ entry[k] # Nil) => HitReturned(t, k)]_vars

\* C23, amended: get_or_set on a key that holds a live cached value other
\* than null returns that value, does not invoke the producer and writes
\* nothing; 0 is such a value.
C23_HitSkipsProducer ==
    [][\A t \in Tasks, k \in HotKeys :
            (GetOrSetLookup(t, k) /\ entry[k] \notin {Nil, Dumps("None")}) =>
                HitReturned(t, k)]_vars

\* A get_or_set() returned the cached 0 without invoking the producer or
\* writing, with the entry still live.
C23_Witness ==
    \E k \in HotKeys :
        /\ cache_last = [CacheReturned("get_or_set", k) EXCEPT !.value = "0"]
        /\ entry[k] = Dumps("0") /\ entry_ttl[k] > 0
        /\ CacheQuiet

\* get_or_set(k, producer) on a miss: the producer is invoked once, and what
\* it returned is stored under k with the default TTL and returned.
MissFetchesOnce(t, k) ==
    /\ (GetOrSetLookup(t, k) /\ entry[k] = Nil) =>
            cache_call'[t] = [NoCall EXCEPT !.pc = "fetch", !.key = k, !.invoked = 1]
    /\ (GetOrSetStore(t) /\ cache_call[t].key = k) =>
            /\ cache_last' = [CacheReturned("get_or_set", k) EXCEPT
                                !.value = cache_call[t].data, !.invoked = 1,
                                !.wrote = TRUE]
            /\ entry'[k] = Dumps(cache_call[t].data)
            /\ entry_ttl'[k] = default_ttl_seconds

\* C24 as stated: get_or_set on a miss invokes the producer once, stores and
\* returns its result; whatever the result was, a get or get_or_set before
\* expiry returns that same value and the producer is not invoked again.
C24_MissStoresOnce_Original ==
    [][\A t \in Tasks, k \in HotKeys :
            /\ MissFetchesOnce(t, k)
            /\ (GetOrSetLookup(t, k) /\ put[k].live /\ put[k].left > 0) =>
                    HitReturned(t, k) /\ cache_last'.value = put[k].value
            /\ (CacheGet(k) /\ put[k].live /\ put[k].left > 0) =>
                    cache_last'.value = put[k].value]_vars

\* C24, amended: get_or_set on a miss invokes the producer once, stores and
\* returns its result; if the result is not null and JSON represents it
\* faithfully, a get or get_or_set before expiry returns that same value and
\* the producer is not invoked again.
C24_MissStoresOnce ==
    [][\A t \in Tasks, k \in HotKeys :
            /\ MissFetchesOnce(t, k)
            /\ (/\ GetOrSetLookup(t, k)
                /\ put[k].live /\ put[k].left > 0
                /\ put[k].value # "None" /\ Faithful(put[k].value)) =>
                    HitReturned(t, k) /\ cache_last'.value = put[k].value
            /\ (/\ CacheGet(k)
                /\ put[k].live /\ put[k].left > 0
                /\ put[k].value # "None" /\ Faithful(put[k].value)) =>
                    cache_last'.value = put[k].value]_vars

\* A get_or_set() on a miss has just returned the list its producer gave,
\* after one invocation, and the list is stored with the default TTL.
C24_Witness ==
    \E k \in HotKeys :
        /\ cache_last = [CacheReturned("get_or_set", k) EXCEPT
                            !.value = "[1]", !.invoked = 1, !.wrote = TRUE]
        /\ entry[k] = Dumps("[1]") /\ entry_ttl[k] = default_ttl_seconds
        /\ put[k] = [value |-> "[1]", left |-> default_ttl_seconds, live |-> TRUE]
        /\ CacheQuiet

\* C25: when a Redis command fails, the call returns and does not raise:
\* get returns None, set and delete return False, clear_pattern returns 0.
\* The one exception a call with a failed command ends with is the one its
\* own producer raised, in a get_or_set() whose GET had failed.
C25_FailuresAreAbsorbed ==
    cache_last.failed =>
        /\ cache_last.op \in {"get", "set", "delete", "get_or_set", "clear_pattern",
                              "raised"}
        /\ cache_last.op = "raised" => cache_last.invoked = 1 /\ ~cache_last.wrote
        /\ cache_last.op = "get" => cache_last.value = "None"
        /\ cache_last.op \in {"set", "delete"} => ~cache_last.ok
        /\ cache_last.op = "clear_pattern" => cache_last.count = 0

\* A clear_pattern() whose DELETE failed after Redis had applied it returned
\* 0 although a key was removed.
C25_Witness ==
    \E p \in Patterns :
        /\ cache_last = [CacheReturned("clear_pattern", p) EXCEPT
                            !.count = 0, !.wrote = TRUE, !.failed = TRUE]
        /\ Matching(p) = {}
        /\ \E k \in HotKeys : Matches(p, k) /\ entry[k] = Nil
        /\ \E j \in HotKeys : entry[j] # Nil

\* C26: set(k, v) without a TTL stores the entry with default_ttl_seconds,
\* and set(k, v, ttl) with a TTL stores it with exactly that TTL.
C26_ExplicitTTLIsUsed ==
    [][\A k \in HotKeys, v \in Values, ttl \in TTLArgs :
            CacheSet(k, v, ttl) =>
                /\ entry'[k] = Dumps(v)
                /\ entry_ttl'[k] = (IF ttl = Unset THEN default_ttl_seconds ELSE ttl)]_vars

\* C27: clear_pattern(pattern) removes exactly the keys that match, with one
\* DELETE, and returns how many there were; when no key matches it returns 0
\* and issues no DELETE; the keys that do not match keep value and TTL.
C27_ClearRemovesMatches ==
    [][\A t \in Tasks, p \in Patterns :
            /\ (ClearKeys(t, p) /\ \A k \in CacheKeys : entry[k] # Nil => ~Matches(p, k)) =>
                    /\ cache_last' = [CacheReturned("clear_pattern", p) EXCEPT !.count = 0]
                    /\ cache_call'[t].pc = "idle"
                    /\ entry' = entry /\ entry_ttl' = entry_ttl
            /\ (ClearKeys(t, p) /\ \E k \in CacheKeys : entry[k] # Nil /\ Matches(p, k)) =>
                    cache_call'[t].pc = "delete"
            /\ (ClearDelete(t) /\ cache_call[t].key = p) =>
                    /\ cache_last' =
                            [CacheReturned("clear_pattern", p) EXCEPT
                                !.count = Cardinality({k \in CacheKeys :
                                                        entry[k] # Nil /\ Matches(p, k)}),
                                !.wrote = TRUE]
                    /\ cache_call'[t].pc = "idle"
                    /\ \A k \in CacheKeys :
                            IF Matches(p, k)
                            THEN entry'[k] = Nil
                            ELSE entry'[k] = entry[k] /\ entry_ttl'[k] = entry_ttl[k]]_vars

\* A clear_pattern("summary:*") returned 2: both summary keys are gone and
\* the metric key is still there.
C27_Witness ==
    /\ cache_last = [CacheReturned("clear_pattern", "summary:*") EXCEPT
                        !.count = 2, !.wrote = TRUE]
    /\ entry["summary:a"] = Nil /\ entry["summary:b"] = Nil
    /\ entry["metric:a"] # Nil
    /\ CacheQuiet

\* --------------------------------------------- construction and startup claims

\* C28: constructing a CircuitBreaker, RateLimiter or CacheService with a
\* threshold, TTL or window that is not positive fails at construction.
C28_NonPositiveRejected ==
    (built.cls \in {"CircuitBreaker", "RateLimiter", "CacheService"} /\ built.arg <= 0) =>
        built.raised

\* C29: get_services() constructs the three services at most once, also when
\* first calls overlap, and every caller gets the same CircuitBreaker.
C29_ServicesBuiltOnce ==
    /\ constructed <= 1
    /\ \A t \in Tasks, u \in Tasks :
            (/\ boot_got[t].op = "get_services" /\ ~boot_got[t].raised
             /\ boot_got[u].op = "get_services" /\ ~boot_got[u].raised) =>
                boot_got[t].id = boot_got[u].id

\* C30: however often and however overlapping initialize() is called, one
\* connection is created at most, and every call that returns returns the
\* one instance, for as long as no close() has been called on a client.
C30_OneConnection ==
    ~closed =>
        /\ connections <= 1
        /\ \A t \in Tasks :
                (boot_got[t].op = "initialize" /\ ~boot_got[t].raised) =>
                    boot_got[t].id = instance /\ instance = 1

\* Two overlapping first calls of initialize() have both returned the one
\* instance; one connection was created.
C30_Witness ==
    /\ ~closed
    /\ connections = 1
    /\ \E t \in Tasks, u \in Tasks :
            /\ t # u
            /\ boot_got[t] = Got("initialize", instance)
            /\ boot_got[u] = Got("initialize", instance)
    /\ \A t \in Tasks : boot_pc[t] = "idle"

\* ------------------------------------------------ RateLimiter claims, continued

\* The counter of k exists without a TTL and no allow_request() is about to
\* send the EXPIRE for it.
Orphan(k) ==
    /\ Live(k) /\ expires[k] = NoExpiry
    /\ \A t \in Tasks : ~(rl_pc[t] = "expire" /\ rl_key[t] = k)

\* C31: a counter whose EXPIRE was never applied stays without a TTL: time
\* does not remove it and no later allow_request() attaches a TTL, only
\* reset() ends it; and every allow_request() that gets a count from INCR
\* once the count has reached the threshold returns False.
C31_OrphanCounterStays ==
    [][\A k \in Keys :
            /\ (Orphan(k) /\ ~Orphan(k)') => (rl_last'.op = "reset" /\ ~Live(k)')
            /\ (Orphan(k) /\ Orphan(k)') => counter'[k] >= counter[k]
            /\ \A t \in Tasks :
                    (Orphan(k) /\ counter[k] >= threshold /\ AllowRequestIncr(t, k)) =>
                        rl_last' = AllowReturned(k, FALSE)]_vars

\* Long after the window would have ended, a counter without a TTL is over
\* the threshold and the last allow_request() for it returned False.
C31_Witness ==
    \E k \in Keys :
        /\ Orphan(k)
        /\ counter[k] > threshold
        /\ window_start[k] # NoWindow
        /\ redis_time >= window_start[k] + window_seconds
        /\ rl_last = AllowReturned(k, FALSE)

\* ----------------------------------------------- CacheService claims, continued

\* Task t is inside get_or_set(k, producer), past its miss.
Missed(t, k) == cache_call[t].pc \in {"fetch", "store"} /\ cache_call[t].key = k

\* C32: concurrent get_or_set() misses on one key are not coalesced. A caller
\* that finds the key absent can always go on to its own producer, however
\* many callers are past their miss on that key; each caller returns what its
\* own producer gave; and each caller's write replaces what is stored, so the
\* cache holds the value of the caller that wrote last.
C32_MissesNotCoalesced ==
    /\ [](\A t \in Tasks, k \in HotKeys :
            (cache_call[t].pc = "idle" /\ entry[k] = Nil) =>
                ENABLED (GetOrSetLookup(t, k) /\ cache_call'[t].pc = "fetch"))
    /\ [][\A t \in Tasks, k \in HotKeys :
            (GetOrSetStore(t) /\ cache_call[t].key = k) =>
                /\ cache_call[t].invoked = 1
                /\ cache_last' = [CacheReturned("get_or_set", k) EXCEPT
                                    !.value = cache_call[t].data, !.invoked = 1,
                                    !.wrote = TRUE]
                /\ entry'[k] = Dumps(cache_call[t].data)]_vars

\* Every task missed on the same key and each invoked its producer; one has
\* written and returned 0, which is what the cache holds, while another is
\* about to write the list its own producer gave.
C32_Witness ==
    \E k \in HotKeys, u \in Tasks :
        /\ cache_last = [CacheReturned("get_or_set", k) EXCEPT
                            !.value = "0", !.invoked = 1, !.wrote = TRUE]
        /\ entry[k] = Dumps("0")
        /\ cache_call[u] = [NoCall EXCEPT !.pc = "store", !.key = k, !.data = "[1]",
                                           !.invoked = 1]
        /\ \A t \in Tasks \ {u} : cache_call[t].pc = "idle"

\* C39: when the producer raises during get_or_set(k, producer) on a miss,
\* the exception reaches the caller and the call has written nothing: neither
\* its lookup nor the failed fetch changes any entry or TTL.
C39_ProducerErrorPropagates ==
    [][\A t \in Tasks, k \in HotKeys :
            /\ (GetOrSetLookup(t, k) /\ cache_call'[t].pc = "fetch") =>
                    entry' = entry /\ entry_ttl' = entry_ttl
            /\ (GetOrSetFetchFails(t) /\ cache_call[t].key = k) =>
                    /\ cache_last' = ProducerRaised(k)
                    /\ ~cache_last'.wrote
                    /\ cache_call'[t].pc = "idle"
                    /\ entry' = entry /\ entry_ttl' = entry_ttl]_vars

\* A get_or_set() ended with its producer's exception and the key it missed
\* on is still absent.
C39_Witness ==
    \E k \in HotKeys :
        /\ cache_last = ProducerRaised(k)
        /\ entry[k] = Nil /\ entry_ttl[k] = NoExpiry
        /\ \A t \in Tasks : cache_call[t].pc = "idle"

\* C40: a None given to set(), by get_or_set() or directly, is stored, as the
\* text null, but reads back as absent: until it expires get() returns None
\* and get_or_set() goes to its producer again; every other stored value, 0,
\* False and the empty list included, is a hit for get_or_set().
C40_NullReadsAsAbsent ==
    /\ [](\A k \in HotKeys :
            (put[k].live /\ put[k].left > 0) => entry[k] = Dumps(put[k].value))
    /\ [][\A t \in Tasks, k \in HotKeys :
            /\ (CacheGet(k) /\ entry[k] = Dumps("None")) =>
                    cache_last' = CacheReturned("get", k)
            /\ (GetOrSetLookup(t, k) /\ entry[k] = Dumps("None")) =>
                    cache_call'[t] = [NoCall EXCEPT !.pc = "fetch", !.key = k,
                                                     !.invoked = 1]
            /\ (GetOrSetLookup(t, k) /\ entry[k] \in {Dumps(v) : v \in Values \ {"None"}}) =>
                    HitReturned(t, k)]_vars

\* A get_or_set() is awaiting its producer although the key holds the null
\* that an earlier get_or_set() stored and that has a second left to live.
C40_Witness ==
    \E t \in Tasks, k \in HotKeys :
        /\ cache_call[t] = [NoCall EXCEPT !.pc = "fetch", !.key = k, !.invoked = 1]
        /\ cache_last = [CacheReturned("get_or_set", k) EXCEPT
                            !.value = "None", !.invoked = 1, !.wrote = TRUE]
        /\ entry[k] = Dumps("None") /\ entry_ttl[k] = 1
        /\ put[k] = [value |-> "None", left |-> 1, live |-> TRUE]

\* ------------------------------------------------ get_metrics_summary() claims

\* C33: the summary endpoint calls the circuit breaker only on a cache miss;
\* on a miss the computed summary is returned and sent to the cache whatever
\* the breaker call gave: the result, the operation's own error, or
\* CircuitBreakerOpenError. A cached value that is no summary, which the
\* handler never stores, counts as a miss.
C33_BreakerOnlyOnMiss ==
    [][\A t \in Tasks, k \in SummaryKeys :
            /\ (SummaryLookup(t, k) /\ entry[k] = Dumps(Summary)) =>
                    /\ summary_last' = SummaryReturned(k, "cache", FALSE, "none", FALSE)
                    /\ summary_pc'[t] = "idle"
                    /\ UNCHANGED breaker_vars
                    /\ entry' = entry
            /\ ((SummaryLookup(t, k) \/ SummaryLookupFails(t, k)) /\ entry[k] = Nil) =>
                    /\ summary_pc'[t] \in {"call", "set"}
                    /\ summary_pc'[t] = "set" =>
                            outcome' = Ended("rejected", CircuitBreakerOpenError)
            /\ (SummaryLookup(t, k) /\ entry[k] \notin {Nil, Dumps(Summary)}) =>
                    /\ summary_pc'[t] \in {"call", "set"}
                    /\ UNCHANGED summary_last
            /\ SummaryCallEnds(t) =>
                    /\ outcome'.gave \in {Result, OperationError, CircuitBreakerOpenError}
                    /\ summary_pc'[t] = "set"
            /\ (SummaryStore(t) /\ summary_key[t] = k) =>
                    /\ summary_last' = SummaryReturned(k, "computed", TRUE, outcome.gave, TRUE)
                    /\ entry'[k] = Dumps(Summary)
                    /\ summary_pc'[t] = "idle"]_vars

\* A request that missed was rejected by the OPEN breaker and still returned
\* the computed summary, which is now in the cache.
C33_Witness ==
    \E k \in SummaryKeys :
        /\ summary_last = SummaryReturned(k, "computed", TRUE, CircuitBreakerOpenError, TRUE)
        /\ outcome = Ended("rejected", CircuitBreakerOpenError)
        /\ state = OPEN
        /\ entry[k] = Dumps(Summary)
        /\ SummaryQuiet

(***************************************************************************)
(* CircuitBreaker claims, continued.                                       *)
(***************************************************************************)

\* C34: in every reachable state, under any interleaving of concurrent calls
\* and resets, a Closed breaker has failure_count < failure_threshold.
C34_ClosedBelowThreshold ==
    state = CLOSED => failure_count < failure_threshold

\* A Closed breaker one failure short of its threshold, with one CLOSED-path
\* operation in flight while another task probes or waits for the lock.
C34_Witness ==
    /\ state = CLOSED
    /\ failure_count > 0
    /\ failure_count = failure_threshold - 1
    /\ \E t \in Tasks : pc[t] = "closed_op"
    /\ \E t \in Tasks : pc[t] \in {"reset_wait", "fail_wait", "probe_op"}

\* C35: a call admitted while Closed whose operation fails when the breaker is
\* already Open increments failure_count to a value beyond the threshold and
\* sets last_failure_time to the current time while the state stays Open, so
\* that the breaker becomes eligible for HalfOpen exactly reset_timeout after
\* that late failure.
C35_LateFailure ==
    [][\A t \in Tasks :
        (ClosedFailureEnds(t) /\ state = OPEN) =>
            /\ failure_count' = failure_count + 1
            /\ failure_count' > failure_threshold
            /\ last_failure_time' = now
            /\ state' = OPEN
            /\ \A s \in now..(now + reset_timeout) :
                  CheckStateTransition(Breaker', s).state =
                      IF s - now >= reset_timeout THEN HALF_OPEN ELSE OPEN]_vars

\* Task t's call ends in this step on the CLOSED path with the operation's result.
ClosedSuccessEnds(t) ==
    /\ pc[t] = "closed_op"
    /\ pc'[t] = "idle"
    /\ outcome' = Ended("closed", Result)

\* C36: a call admitted while Closed whose operation succeeds when the breaker
\* is Open or HalfOpen only increments success_count: the state, failure_count
\* and last_failure_time are left as they were.
C36_LateSuccess ==
    [][\A t \in Tasks :
        (ClosedSuccessEnds(t) /\ state \in {OPEN, HALF_OPEN}) =>
            /\ success_count' = success_count + 1
            /\ state' = state
            /\ failure_count' = failure_count
            /\ last_failure_time' = last_failure_time]_vars

\* An Open breaker just after a late success: the failures that opened it are
\* still counted.
C36_Witness ==
    /\ state = OPEN
    /\ outcome = Ended("closed", Result)
    /\ success_count > 0
    /\ failure_count >= failure_threshold

\* A get_state() or get_status() returns in this step: it records what it
\* returned, or it repeats the last read at the same clock value with the
\* same answer and leaves the record as it is.
Reads ==
    \/ reported' # reported
    \/ /\ \/ reported = Reported("get_state", Breaker.state, {}, now)
          \/ reported = Reported("get_status", GetStatus(Breaker).state,
                                 {GetStatus(Breaker)}, now)
       /\ UNCHANGED vars

\* C37: get_state() and get_status() never modify the breaker, and the state
\* goes from Open to HalfOpen only in a step in which a call() is entered; an
\* Open breaker therefore stays Open, and is reported Open, through every
\* passage of time and every get_state() and get_status().
C37_ReadsDoNotTransition ==
    [][/\ Reads => UNCHANGED breaker_vars
       /\ (state = OPEN /\ state' = HALF_OPEN) =>
              \E t \in Tasks : /\ pc[t] = "idle"
                               /\ pc'[t] \in {"probe_op", "probe_wait"}
       /\ (state = OPEN /\ (Reads \/ now' # now)) => state' = OPEN
       /\ (state = OPEN /\ Reads) =>
              /\ reported'.state = OPEN
              /\ reported'.method = "get_status" =>
                    reported'.status = {GetStatus(Breaker)}]_vars

\* get_status() has just reported Open for a breaker whose reset_timeout
\* elapsed more than a second ago.
C37_Witness ==
    /\ state = OPEN
    /\ Elapsed > reset_timeout
    /\ reported = Reported("get_status", OPEN, {Status}, now)

\* Task t waits for the breaker's lock.
Waiting(t) == pc[t] \in {"probe_wait", "fail_wait", "reset_wait"}

\* C38: when every operation terminates, every call() and every reset() in
\* progress ends, every task waiting for the lock gets it, and a probe that
\* ends, with a result or with an error, leaves the lock released.
C38_Terminates ==
    /\ \A t \in Tasks : (pc[t] # "idle") ~> (pc[t] = "idle")
    /\ \A t \in Tasks : Waiting(t) ~> ~Waiting(t)
    /\ [][\A t \in Tasks : ProbeEnds(t) => ~locked']_vars

\* A probe holds the lock while a reset() waits for it.
C38_Witness ==
    /\ locked
    /\ \E t \in Tasks : pc[t] = "probe_op"
    /\ \E t \in Tasks : pc[t] = "reset_wait" /\ waiters = <<t>>

====
